---- MODULE Spec2Model ----
(***************************************************************************)
(* Taskman: per-project task storage (SQLiteTaskStore), the project        *)
(* registry (ProjectManager), the Project task API and the threaded HTTP   *)
(* dispatch (tasker_server), modelled as state machines.                   *)
(*                                                                         *)
(* Strings that the code inspects character by character (project names)   *)
(* are sequences of one-character strings; opaque strings (summaries,      *)
(* statuses) are TLA+ strings.                                             *)
(***************************************************************************)
EXTENDS Integers, Sequences, FiniteSets, TLC

\* ------------------------------------------------------------------ bounds
\* Largest task id a caller puts in a storage payload.
MaxId == 1

\* ------------------------------------------------------------ project names
\* Python's None for an Optional[int] id (Task.__init__ default).
NoneId == -1

LowerChar(c) ==
  CASE c = "A" -> "a"
    [] c = "B" -> "b"
    [] c = "C" -> "c"
    [] OTHER -> c

\* str.lower()
Lower(s) == [i \in 1..Len(s) |-> LowerChar(s[i])]

IsSpace(c) == c = " "

RECURSIVE LStrip(_)
LStrip(s) == IF s # <<>> /\ IsSpace(Head(s)) THEN LStrip(Tail(s)) ELSE s

RECURSIVE RStrip(_)
RStrip(s) ==
  IF s # <<>> /\ IsSpace(s[Len(s)]) THEN RStrip(SubSeq(s, 1, Len(s) - 1)) ELSE s

\* str.strip()
Strip(s) == RStrip(LStrip(s))

\* the characters the pattern [a-z0-9_] matches
SafeChars == {"a", "b", "c", "0", "1", "_"}

\* the characters left as they are
KeepChars(s) == s

\* re.sub(r"[^a-z0-9_]", "_", base)
Sanitize(s) == [i \in 1..Len(s) |-> IF s[i] \in SafeChars THEN s[i] ELSE "_"]

_TABLE_PREFIX == <<"tasks_">>

\* _project_table_name raises ValueError exactly when this holds
NameRejected(project_name) == Lower(Strip(project_name)) = <<>>

\* The table identifier: the prefix followed by the sanitized characters.
_project_table_name(project_name) ==
  _TABLE_PREFIX \o Sanitize(Lower(Strip(project_name)))

\* ProjectAPI._invalid_name
HasDotDot(s) == \E i \in 1..(Len(s) - 1) : s[i] = "." /\ s[i + 1] = "."

_invalid_name(name) ==
  \/ name = <<>>
  \/ HasDotDot(name)
  \/ (name # <<>> /\ Head(name) = ".")
  \/ \E i \in 1..Len(name) : name[i] = "/"

\* Project names the callers of the store use.
StoreNames ==
  { <<"a", "-", "b">>, <<"a", "_", "b">>, <<"c">>, <<"C">>, <<" ">> }

\* names sent to /api/projects/open and /api/projects/edit-name
RenameNames == { <<"c">>, <<"C">>, <<"b">>, <<"a">> }

\* the registered project whose rows the engine holds
RenameStoreNames == { <<"b">> }

TableNames ==
  { _project_table_name(n) : n \in {m \in StoreNames \cup RenameNames : ~NameRejected(m)} }

\* ------------------------------------------------------------- task payloads
Ids == 0..MaxId

TaskFull(i) ==
  [task_id |-> i, summary |-> "s", assignee |-> "a", remarks |-> "r",
   status |-> "Completed", priority |-> "High", highlight |-> TRUE]

TaskMin(i) ==
  [task_id |-> i, summary |-> "", status |-> "Not Started", priority |-> "Low"]

TaskNoSummary(i) == [task_id |-> i, status |-> "In Progress", priority |-> "Low"]

TaskNoId == [summary |-> "s", status |-> "Not Started", priority |-> "Medium"]

TaskDicts ==
  {TaskFull(i) : i \in Ids} \cup {TaskMin(i) : i \in Ids}
    \cup {TaskNoSummary(i) : i \in Ids} \cup {TaskNoId}

\* dict.get(key) or ""
GetOrEmpty(task, key) == IF key \in DOMAIN task THEN task[key] ELSE ""

\* 1 if task.get("highlight") else 0
HighlightBit(task) ==
  IF "highlight" \in DOMAIN task /\ task["highlight"] = TRUE THEN 1 ELSE 0

\* the column values both upsert_task and bulk_replace bind
NormalizeRow(task) ==
  [summary |-> GetOrEmpty(task, "summary"),
   assignee |-> GetOrEmpty(task, "assignee"),
   remarks |-> GetOrEmpty(task, "remarks"),
   status |-> GetOrEmpty(task, "status"),
   priority |-> GetOrEmpty(task, "priority"),
   highlight |-> HighlightBit(task)]

RequiredFields == {"task_id", "summary", "status", "priority"}

\* a check that asks for the id only
MissingId(task) == {"task_id"} \ DOMAIN task

MissingRequired(task) == RequiredFields \ DOMAIN task

\* ------------------------------------------------------------------- state
VARIABLES
  conn,       \* SQLiteTaskStore._conn: TRUE when a connection is open
  lockOwner,  \* SQLiteTaskStore._lock (RLock): owning thread, 0 when free
  lockCount,  \* SQLiteTaskStore._lock: recursion depth
  made,       \* the tables that exist in the database file
  db,         \* table -> (task_id -> row), as the connection sees it
  journal,    \* SQLite's rollback journal: <<db>> inside BEGIN..COMMIT, else <<>>
  pc,         \* per thread: position inside the storage operation
  call,       \* per thread: the operation in progress and its arguments
  ret,        \* per thread: outcome of the last finished operation
  prior,      \* history: per thread, the rows its bulk_replace found on taking the lock
  projects,   \* projects.json: the registered names, in order
  tags,       \* project_tags.json: lowercase project key -> list of tags
  tagged,     \* project_tags.json: the lowercase keys present in the mapping
  exists,     \* the task files present in the data directory
  files,      \* task file -> its JSON list of task dicts (<<>> when absent or empty)
  current,    \* server.current_project: a Project object, or NoProject for None
  rq,         \* per request thread: the request and the handler's locals
  resp,       \* per request thread: the response last written
  nreq,       \* per request thread: requests received
  deleted,    \* history: project, index and id of the tasks removed by answered deletes
  unreadable, \* the task files Project.__init__ raises on (JSON that is not a list of task dicts)
  nameArg,    \* the project name _project_table_name is called with
  tableOut,   \* what that call gave: the identifier, or ValueError
  tagRet,     \* the last call of a tag helper of ProjectManager and the list it returned
  srv         \* the ThreadingHTTPServer: its serve loop, its shutdown flag, the exit handlers

storeVars == <<conn, lockOwner, lockCount, made, db, journal, pc, call, ret, prior>>

apiVars == <<projects, tags, tagged, exists, files, current, rq, resp, nreq, deleted, unreadable>>

fnVars == <<nameArg, tableOut, tagRet, srv>>

vars == <<storeVars, apiVars, fnVars>>

Threads == {1, 2}

\* a table without rows
EmptyRows == [i \in {} |-> [summary |-> ""]]

NoCall == [op |-> "none", project |-> <<>>, task |-> TaskNoId, tasks |-> <<>>, task_id |-> 0]

NoRet == [op |-> "none", result |-> "none", rows |-> <<>>]

\* positions at which the thread is between acquiring and releasing _lock,
\* about to run (or running) a statement on the connection
ExecPcs ==
  {"ensure_exec", "body_exec", "begin", "delete_all", "insert_many", "commit", "rollback"}

\* ------------------------------------------------------- SQL on one table
\* rows of a table: a function from the task ids present to column values
RowIds(rows) == DOMAIN rows

\* an upsert that keeps the stored value of a column the payload lacks
UpsertRowKeepsAbsent(rows, task) ==
  [i \in (DOMAIN rows) \cup {task["task_id"]} |->
     IF i # task["task_id"] THEN rows[i]
     ELSE IF i \notin DOMAIN rows THEN NormalizeRow(task)
     ELSE [k \in DOMAIN rows[i] |->
             IF k \in DOMAIN task THEN NormalizeRow(task)[k] ELSE rows[i][k]]]

\* INSERT ... ON CONFLICT(task_id) DO UPDATE SET every other column
UpsertRow(rows, task) ==
  [i \in (DOMAIN rows) \cup {task["task_id"]} |->
     IF i = task["task_id"] THEN NormalizeRow(task) ELSE rows[i]]

\* a DELETE with WHERE task_id <= ?
DeleteRowsUpTo(rows, task_id) == [i \in {j \in DOMAIN rows : j > task_id} |-> rows[i]]

\* DELETE FROM table WHERE task_id = ?
DeleteRow(rows, task_id) == [i \in (DOMAIN rows) \ {task_id} |-> rows[i]]

\* a bulk_replace without its DELETE
DeleteNone(rows) == rows

\* DELETE FROM table
DeleteAll(rows) == EmptyRows

\* executemany(INSERT ...): rows go in one by one; the first id already
\* present raises IntegrityError and the rows inserted so far stay in the
\* open transaction
RECURSIVE InsertMany(_, _)
InsertMany(rows, tasks) ==
  IF tasks = <<>> THEN [rows |-> rows, ok |-> TRUE]
  ELSE IF Head(tasks)["task_id"] \in DOMAIN rows THEN [rows |-> rows, ok |-> FALSE]
  ELSE InsertMany(
         [i \in (DOMAIN rows) \cup {Head(tasks)["task_id"]} |->
            IF i = Head(tasks)["task_id"] THEN NormalizeRow(Head(tasks)) ELSE rows[i]],
         Tail(tasks))

\* the largest element of a non-empty set of integers
SetLargest(S) == CHOOSE x \in S : \A y \in S : y <= x

\* the smallest element of a non-empty set of integers
SetMin(S) == CHOOSE x \in S : \A y \in S : x <= y

\* SELECT ... ORDER BY task_id ASC, then dict(row) with highlight as bool
RECURSIVE SelectOrdered(_, _)
SelectOrdered(rows, ids) ==
  IF ids = {} THEN <<>>
  ELSE LET i == SetMin(ids) IN
       << [task_id |-> i,
           summary |-> rows[i].summary,
           assignee |-> rows[i].assignee,
           remarks |-> rows[i].remarks,
           status |-> rows[i].status,
           priority |-> rows[i].priority,
           highlight |-> (rows[i].highlight # 0)] >>
         \o SelectOrdered(rows, ids \ {i})

FetchRows(rows) == SelectOrdered(rows, DOMAIN rows)

\* ------------------------------------------------------------ the RLock
\* a lock that admits every thread
CanAcquireAlways(t) == t \in Threads

\* RLock.acquire succeeds when the lock is free or already owned by the caller
CanAcquire(t) == lockOwner \in {0, t}

Acquire(t) ==
  /\ CanAcquire(t)
  /\ lockOwner' = t
  /\ lockCount' = lockCount + 1

Release(t) ==
  /\ lockCount' = lockCount - 1
  /\ lockOwner' = IF lockCount = 1 THEN 0 ELSE lockOwner

Table(t) == _project_table_name(call[t].project)

Finish(t, result, rows) ==
  /\ pc' = [pc EXCEPT ![t] = "idle"]
  /\ ret' = [ret EXCEPT ![t] =
       [op |-> call[t].op, result |-> result, rows |-> rows]]
  /\ call' = [call EXCEPT ![t] = NoCall]

\* ------------------------------------------------- SQLiteTaskStore: actions
AllIdle == \A t \in Threads : pc[t] = "idle"

\* SQLiteTaskStore.open: a second open is a no-op
Open ==
  /\ AllIdle
  /\ conn' = TRUE
  /\ UNCHANGED <<lockOwner, lockCount, made, db, journal, pc, call, ret, prior>>
  /\ UNCHANGED <<apiVars, fnVars>>

\* SQLiteTaskStore.close: safe on a store never opened
Close ==
  /\ AllIdle
  /\ conn' = FALSE
  /\ UNCHANGED <<lockOwner, lockCount, made, db, journal, pc, call, ret, prior>>
  /\ UNCHANGED <<apiVars, fnVars>>

\* Entry of every operation: the connection check, then (upsert only) the
\* required-field check, then _ensure_table's table-name derivation.
\* checks that look at the payload before the connection
EnterCheckFieldsFirst(c) ==
  IF c.op = "upsert_task" /\ MissingRequired(c.task) # {} THEN "ValueError"
  ELSE IF ~conn THEN "RuntimeError"
  ELSE IF NameRejected(c.project) THEN "ValueError"
  ELSE "ok"

\* the checks every operation makes before it touches the database, in
\* the order of the code: the connection, upsert_task's required fields,
\* _project_table_name's non-empty name
EnterCheck(c) ==
  IF ~conn THEN "RuntimeError"
  ELSE IF c.op = "upsert_task" /\ MissingRequired(c.task) # {} THEN "ValueError"
  ELSE IF NameRejected(c.project) THEN "ValueError"
  ELSE "ok"

Enter(t, c) ==
  /\ pc[t] = "idle"
  /\ IF EnterCheck(c) # "ok"
       THEN /\ ret' = [ret EXCEPT ![t] =
                 [op |-> c.op, result |-> EnterCheck(c), rows |-> <<>>]]
            /\ UNCHANGED <<pc, call>>
       ELSE /\ pc' = [pc EXCEPT ![t] = "ensure_wait"]
            /\ call' = [call EXCEPT ![t] = c]
            /\ ret' = [ret EXCEPT ![t] = NoRet]
  /\ UNCHANGED <<conn, lockOwner, lockCount, made, db, journal, prior>>
  /\ UNCHANGED <<apiVars, fnVars>>

\* SQLiteTaskStore._ensure_table called directly (ProjectTaskSession.__enter__)
StartEnsure(t, names) ==
  \E n \in names :
    Enter(t, [NoCall EXCEPT !.op = "_ensure_table", !.project = n])

\* SQLiteTaskStore.fetch_all
StartFetch(t, names) ==
  \E n \in names :
    Enter(t, [NoCall EXCEPT !.op = "fetch_all", !.project = n])

\* SQLiteTaskStore.upsert_task
StartUpsert(t, names) ==
  \E n \in names, task \in TaskDicts :
    Enter(t, [NoCall EXCEPT !.op = "upsert_task", !.project = n, !.task = task])

\* Batches handed to bulk_replace: empty, one task, two tasks (distinct ids
\* in either order, the same id twice, or one task without an id, first or
\* last).
Batches ==
  {<<>>} \cup {<<TaskFull(i)>> : i \in Ids}
    \cup {<<TaskMin(0), x>> : x \in {TaskFull(i) : i \in Ids} \cup {TaskMin(0), TaskNoId}}
    \cup {<<TaskFull(MaxId), TaskMin(0)>>, <<TaskNoId, TaskMin(0)>>}

\* SQLiteTaskStore.bulk_replace
StartBulk(t, names) ==
  \E n \in names, tasks \in Batches :
    Enter(t, [NoCall EXCEPT !.op = "bulk_replace", !.project = n, !.tasks = tasks])

\* SQLiteTaskStore.delete_task
StartDelete(t, names) ==
  \E n \in names, i \in Ids :
    Enter(t, [NoCall EXCEPT !.op = "delete_task", !.project = n, !.task_id = i])

\* _ensure_table: with self._lock
EnsureAcquire(t) ==
  /\ pc[t] = "ensure_wait"
  /\ Acquire(t)
  /\ pc' = [pc EXCEPT ![t] = "ensure_exec"]
  /\ UNCHANGED <<conn, made, db, journal, call, ret, prior>>
  /\ UNCHANGED <<apiVars, fnVars>>

\* a loop that looks at the first task only
BatchHeadLacksId(tasks) == tasks # <<>> /\ "task_id" \notin DOMAIN tasks[1]

\* bulk_replace's normalisation loop raises when a task has no task_id
BatchLacksId(tasks) == \E k \in 1..Len(tasks) : "task_id" \notin DOMAIN tasks[k]

\* _ensure_table: CREATE TABLE IF NOT EXISTS, leave the lock, return to the
\* caller (bulk_replace then normalises its batch before taking the lock)
\* what the rows of the table are after DROP TABLE and CREATE TABLE
RecreatedRows(rows) == EmptyRows

\* CREATE TABLE IF NOT EXISTS: the rows of a table that exists stay
EnsuredRows(rows) == rows

EnsureExec(t) ==
  /\ pc[t] = "ensure_exec"
  /\ made' = made \cup {Table(t)}
  /\ db' = [db EXCEPT ![Table(t)] = EnsuredRows(@)]
  /\ Release(t)
  /\ IF call[t].op = "_ensure_table"
       THEN Finish(t, "ok", <<>>)
     ELSE IF call[t].op = "bulk_replace" /\ BatchLacksId(call[t].tasks)
       THEN Finish(t, "ValueError", <<>>)
     ELSE /\ pc' = [pc EXCEPT ![t] = "body_wait"]
          /\ UNCHANGED <<call, ret>>
  /\ UNCHANGED <<conn, journal, prior>>
  /\ UNCHANGED <<apiVars, fnVars>>

\* a fetch_all that reads without the lock
LockedWritesOnly(op) == op # "fetch_all"

\* fetch_all, upsert_task, delete_task and bulk_replace run their
\* statements inside "with self._lock"
Locked(op) == op \in {"fetch_all", "upsert_task", "delete_task", "bulk_replace"}

\* fetch_all / upsert_task / delete_task / bulk_replace: with self._lock
BodyAcquire(t) ==
  /\ pc[t] = "body_wait"
  /\ IF Locked(call[t].op) THEN Acquire(t) ELSE UNCHANGED <<lockOwner, lockCount>>
  /\ pc' = [pc EXCEPT ![t] = IF call[t].op = "bulk_replace" THEN "begin" ELSE "body_exec"]
  /\ prior' = [prior EXCEPT ![t] =
       IF call[t].op = "bulk_replace" THEN db[Table(t)] ELSE EmptyRows]
  /\ UNCHANGED <<conn, made, db, journal, call, ret>>
  /\ UNCHANGED <<apiVars, fnVars>>

\* the single statement of fetch_all, upsert_task and delete_task
BodyExec(t) ==
  /\ pc[t] = "body_exec"
  /\ IF Locked(call[t].op) THEN Release(t) ELSE UNCHANGED <<lockOwner, lockCount>>
  /\ CASE call[t].op = "fetch_all" ->
            /\ Finish(t, "ok", FetchRows(db[Table(t)]))
            /\ UNCHANGED db
       [] call[t].op = "upsert_task" ->
            /\ db' = [db EXCEPT ![Table(t)] = UpsertRow(@, call[t].task)]
            /\ Finish(t, "ok", <<>>)
       [] call[t].op = "delete_task" ->
            /\ db' = [db EXCEPT ![Table(t)] = DeleteRow(@, call[t].task_id)]
            /\ Finish(t, "ok", <<>>)
  /\ UNCHANGED <<conn, made, journal, prior>>
  /\ UNCHANGED <<apiVars, fnVars>>

\* bulk_replace: execute("BEGIN")
TxnBegin(t) ==
  /\ pc[t] = "begin"
  /\ journal' = <<db>>
  /\ pc' = [pc EXCEPT ![t] = "delete_all"]
  /\ UNCHANGED <<conn, lockOwner, lockCount, made, db, call, ret, prior>>
  /\ UNCHANGED <<apiVars, fnVars>>

\* bulk_replace: execute("DELETE FROM table")
TxnDelete(t) ==
  /\ pc[t] = "delete_all"
  /\ db' = [db EXCEPT ![Table(t)] = DeleteAll(@)]
  /\ pc' = [pc EXCEPT ![t] = "insert_many"]
  /\ UNCHANGED <<conn, lockOwner, lockCount, made, journal, call, ret, prior>>
  /\ UNCHANGED <<apiVars, fnVars>>

\* bulk_replace: executemany(INSERT ...), raising on a duplicate task_id
TxnInsert(t) ==
  /\ pc[t] = "insert_many"
  /\ LET r == InsertMany(db[Table(t)], call[t].tasks) IN
       /\ db' = [db EXCEPT ![Table(t)] = r.rows]
       /\ pc' = [pc EXCEPT ![t] = IF r.ok THEN "commit" ELSE "rollback"]
  /\ UNCHANGED <<conn, lockOwner, lockCount, made, journal, call, ret, prior>>
  /\ UNCHANGED <<apiVars, fnVars>>

\* bulk_replace: execute("COMMIT"), leave the lock
TxnCommit(t) ==
  /\ pc[t] = "commit"
  /\ journal' = <<>>
  /\ Release(t)
  /\ Finish(t, "ok", <<>>)
  /\ prior' = [prior EXCEPT ![t] = EmptyRows]
  /\ UNCHANGED <<conn, made, db>>
  /\ UNCHANGED <<apiVars, fnVars>>

\* a ROLLBACK that restores nothing
RolledBackNothing == db

\* what ROLLBACK leaves in the database
RolledBack == journal[1]

\* bulk_replace: except Exception: execute("ROLLBACK"); raise
TxnRollback(t) ==
  /\ pc[t] = "rollback"
  /\ db' = RolledBack
  /\ journal' = <<>>
  /\ Release(t)
  /\ Finish(t, "IntegrityError", <<>>)
  /\ prior' = [prior EXCEPT ![t] = EmptyRows]
  /\ UNCHANGED <<conn, made>>
  /\ UNCHANGED <<apiVars, fnVars>>

StoreStep(t, names) ==
  \/ StartEnsure(t, names)
  \/ StartFetch(t, names)
  \/ StartUpsert(t, names)
  \/ StartBulk(t, names)
  \/ StartDelete(t, names)
  \/ EnsureAcquire(t)
  \/ EnsureExec(t)
  \/ BodyAcquire(t)
  \/ BodyExec(t)
  \/ TxnBegin(t)
  \/ TxnDelete(t)
  \/ TxnInsert(t)
  \/ TxnCommit(t)
  \/ TxnRollback(t)

StoreInit ==
  /\ conn = FALSE
  /\ lockOwner = 0
  /\ lockCount = 0
  /\ made = {}
  /\ db = [tb \in TableNames |-> EmptyRows]
  /\ journal = <<>>
  /\ pc = [t \in Threads |-> "idle"]
  /\ call = [t \in Threads |-> NoCall]
  /\ ret = [t \in Threads |-> NoRet]
  /\ prior = [t \in Threads |-> EmptyRows]

\* =================================================== registry, Project, server
\* ------------------------------------------------------------------ bounds
\* Requests one thread handles when two request threads run concurrently.
MaxReq == 2
\* Requests the single client of the sequential specification sends.
MaxSeqReq == 3
\* Requests the client of the renaming specification sends.
MaxRenameReq == 2
\* Requests the client of the registry specification sends.
MaxRegistryReq == 3
\* Largest list position a client sends in an update or delete.
MaxIndex == 2
\* Requests the client of the routes specification sends.
MaxRouteReq == 2
\* Requests the client of the malformed-request specification sends.
MaxMalformedReq == 2
\* Longest project name _project_table_name is applied to.
MaxNameLen == 3

\* ------------------------------------------------------------------- tasks
ValidStatus == {"Not Started", "In Progress", "Completed"}

ValidPriority == {"Low", "Medium", "High"}

\* a JSON object without keys
EmptyBody == [k \in {} |-> ""]

NoTask ==
  [id |-> NoneId, summary |-> "", assignee |-> "", remarks |-> "",
   status |-> "", priority |-> ""]

\* str(payload.get(key, ""))
GetStr(payload, key) == IF key \in DOMAIN payload THEN payload[key] ELSE ""

\* getattr(t, "highlight", False): a task without the attribute reads as
\* not highlighted
HighlightOf(task) == IF "highlight" \in DOMAIN task THEN task["highlight"] ELSE FALSE

\* the Task built from the payload's values as they come
TaskFromPayloadUnchecked(payload) ==
  [id |-> NoneId,
   summary |-> GetStr(payload, "summary"),
   assignee |-> GetStr(payload, "assignee"),
   remarks |-> GetStr(payload, "remarks"),
   status |-> IF "status" \in DOMAIN payload THEN payload["status"] ELSE "Not Started",
   priority |-> IF "priority" \in DOMAIN payload THEN payload["priority"] ELSE "Medium"]

\* Project.create_task_from_payload: the Task it builds; the id is left at
\* its default
TaskFromPayload(payload) ==
  [id |-> NoneId,
   summary |-> GetStr(payload, "summary"),
   assignee |-> GetStr(payload, "assignee"),
   remarks |-> GetStr(payload, "remarks"),
   status |-> IF "status" \in DOMAIN payload /\ payload["status"] \in ValidStatus
                THEN payload["status"] ELSE "Not Started",
   priority |-> IF "priority" \in DOMAIN payload /\ payload["priority"] \in ValidPriority
                  THEN payload["priority"] ELSE "Medium"]

AllowedFields == {"summary", "assignee", "remarks", "status", "priority"}

\* the checks without the enum validation
UpdateErrorNoEnums(tasks, index, fields) ==
  IF DOMAIN fields = {} THEN "'fields' must be a non-empty object"
  ELSE IF \E k \in DOMAIN fields : k \notin AllowedFields THEN "Unknown fields present"
  ELSE IF index < 0 \/ index >= Len(tasks) THEN "Index out of range"
  ELSE ""

\* Project.update_task_from_payload: the first failing check, "" when none
UpdateError(tasks, index, fields) ==
  IF DOMAIN fields = {} THEN "'fields' must be a non-empty object"
  ELSE IF \E k \in DOMAIN fields : k \notin AllowedFields THEN "Unknown fields present"
  ELSE IF index < 0 \/ index >= Len(tasks) THEN "Index out of range"
  ELSE IF "status" \in DOMAIN fields /\ fields["status"] \notin ValidStatus THEN "Invalid status"
  ELSE IF "priority" \in DOMAIN fields /\ fields["priority"] \notin ValidPriority
    THEN "Invalid priority"
  ELSE ""

\* a full replacement: the attributes the request does not name are reset
ReplaceFields(task, fields) ==
  [k \in DOMAIN task |->
     IF k \in DOMAIN fields THEN fields[k]
     ELSE IF k = "id" THEN task[k]
     ELSE IF k = "status" THEN "Not Started"
     ELSE IF k = "priority" THEN "Medium"
     ELSE ""]

\* Project.update_task_from_payload: the assignments to the task's attributes
ApplyFields(task, fields) ==
  [k \in DOMAIN task |-> IF k \in DOMAIN fields THEN fields[k] ELSE task[k]]

\* list.pop(index), 0-based
PopAt(tasks, index) ==
  [i \in 1..(Len(tasks) - 1) |-> IF i <= index THEN tasks[i] ELSE tasks[i + 1]]

\* list[index] = value, 0-based
SetAt(tasks, index, value) == [tasks EXCEPT ![index + 1] = value]

\* the tasks of an earlier session (those of test_load_recomputes_last_id_and_persists),
\* stored as the list save_tasks_to_file writes
SeedTasks ==
  << [id |-> 5, summary |-> "A", assignee |-> "a", remarks |-> "",
      status |-> "Not Started", priority |-> "Low"],
     [id |-> 7, summary |-> "B", assignee |-> "b", remarks |-> "",
      status |-> "In Progress", priority |-> "Medium"] >>

\* the tag project "b" carries from an earlier session
SeedTags == << <<"x">> >>

\* ------------------------------------------------------------------- names
\* project names in task routes
RouteNames == { <<"c">>, <<"b">>, <<".", "c">> }

\* names the routes' checks are tried on
RouteCheckNames ==
  { <<>>, <<"c">>, <<"b">>, <<"1">>, <<"C">>, <<"a", "-", "b">>, <<"c", " ">>,
    <<"c", ".">>, <<".", "c">>, <<"c", ".", ".">>, <<"a", "/", "b">>, <<"/">> }

\* names sent to /api/projects/open
OpenNames == { <<"c">>, <<"b">>, <<" ">> }

\* names sent to open and edit-name by the client of the registry
RegistryNames == { <<"b">>, <<"B">>, <<"c">>, <<"C">> }

AllNames == RouteNames \cup OpenNames \cup RenameNames \cup RegistryNames \cup RouteCheckNames

FileKeys == AllNames \cup {Lower(n) : n \in AllNames}

TagKeys == {Lower(n) : n \in AllNames}

\* taskman.project_manager.ProjectManager.get_task_file_path (used by Project)
ProjectFileKey(name) == name

\* taskman.server.project_manager.ProjectManager.get_task_file_path
get_task_file_path(name) == Lower(name)

\* -------------------------------------------------------- Project objects
NoProject == [some |-> FALSE, name |-> <<>>, tasks |-> <<>>]

\* Project.__init__: open the task file in "a+" mode and load it
NewProject(name) == [some |-> TRUE, name |-> name, tasks |-> files[ProjectFileKey(name)]]

\* route handlers: reuse server.current_project when its name matches
\* case-insensitively
UsesCurrent(name) == current.some /\ Lower(current.name) = Lower(name)

\* the route checks: not name or ".." in name or name.startswith(".") or "/" in name
RouteNameInvalid(name) == _invalid_name(name)

\* the check of GET /api/projects/<name>/tasks:
\* not name or ".." in name or name.startswith(".")
ListNameInvalid(name) ==
  \/ name = <<>>
  \/ HasDotDot(name)
  \/ (name # <<>> /\ Head(name) = ".")

\* open(task_file_path, "a+") creates the file unless the name leads into a
\* directory, which the data directory does not have
OpenCreates(name) == \A i \in 1..Len(name) : name[i] # "/"

\* Project.__init__ raises: load_tasks_from_file catches json.JSONDecodeError
\* only
LoadFails(name) == ProjectFileKey(name) \in unreadable

\* ------------------------------------------------------------ the registry
\* ProjectManager.load_project_names(True)
ProjectsLower == [i \in 1..Len(projects) |-> Lower(projects[i])]

\* list.index: the first position holding x
FirstIndex(seq, x) == SetMin({i \in 1..Len(seq) : seq[i] = x})

InSeq(seq, x) == \E i \in 1..Len(seq) : seq[i] = x

\* ProjectManager.resolve_canonical_name
resolve_canonical_name(name) ==
  IF InSeq(ProjectsLower, Lower(name))
    THEN projects[FirstIndex(ProjectsLower, Lower(name))]
    ELSE name

\* a save_project_name that compares names exactly
SavedProjectsCaseSensitive(name) ==
  IF InSeq(projects, name) THEN projects ELSE Append(projects, name)

\* ProjectManager.save_project_name: the stored list afterwards
SavedProjects(name) ==
  IF InSeq(ProjectsLower, Lower(name)) THEN projects ELSE Append(projects, name)

\* an edit_project_name without the check for an existing new name
EditAcceptedNoConflict(old, new) == InSeq(ProjectsLower, Lower(old))

\* an edit_project_name that refuses every registered new name
EditAcceptedStrict(old, new) ==
  InSeq(ProjectsLower, Lower(old)) /\ ~InSeq(ProjectsLower, Lower(new))

\* ProjectManager.edit_project_name returns True
EditAccepted(old, new) ==
  /\ InSeq(ProjectsLower, Lower(old))
  /\ ~( InSeq(ProjectsLower, Lower(new))
        /\ FirstIndex(ProjectsLower, Lower(new)) # FirstIndex(ProjectsLower, Lower(old)) )

\* -------------------------------------------------------- request threads
NoReq ==
  [kind |-> "none", name |-> <<>>, index |-> NoneId, body |-> EmptyBody, new |-> <<>>,
   phase |-> "idle", shared |-> FALSE, obj |-> NoProject, out |-> NoTask,
   bad |-> FALSE, seen |-> <<>>, canonical |-> <<>>]

NoResp ==
  [status |-> 0, index |-> NoneId, task |-> NoTask, tasks |-> <<>>, error |-> "",
   currentProject |-> <<>>]

InFlight(u) == rq[u].phase \in {"routed", "mutated"}

\* the Project object the handler works on
Proj(t) == IF rq[t].shared THEN current ELSE rq[t].obj

Answer(status, index, task, error) ==
  [status |-> status, index |-> index, task |-> task, tasks |-> <<>>, error |-> error,
   currentProject |-> <<>>]

\* the exception leaves do_POST: no response is written and the request
\* thread ends in socketserver's handle_error
Unhandled == Answer(0, NoneId, NoTask, "unhandled exception")

Done(r) == [r EXCEPT !.phase = "done", !.shared = FALSE, !.obj = NoProject]

\* a handler replaces server.current_project: a handler still holding the
\* old object keeps working on that object
Detach(t, r) ==
  [u \in Threads |->
     IF u = t THEN r
     ELSE IF rq[u].shared /\ InFlight(u)
       THEN [rq[u] EXCEPT !.shared = FALSE, !.obj = current]
       ELSE rq[u]]

\* POST /api/projects/open
OpenProject(t, r) ==
  LET name == Strip(r.name) IN
  IF r.bad \/ name = <<>>
    THEN /\ rq' = [rq EXCEPT ![t] = Done(r)]
         /\ resp' = [resp EXCEPT ![t] = Answer(400, NoneId, NoTask, "Missing 'name'")]
         /\ UNCHANGED <<projects, tags, tagged, exists, files, current, deleted, unreadable>>
    ELSE LET canonical == IF InSeq(ProjectsLower, Lower(name))
                            THEN resolve_canonical_name(name) ELSE name
         IN /\ projects' = SavedProjects(name)
            /\ IF LoadFails(canonical)
                 THEN \* except Exception as e: 500; the name is saved already
                      /\ rq' = [rq EXCEPT ![t] = Done(r)]
                      /\ resp' = [resp EXCEPT ![t] = Answer(500, NoneId, NoTask, "load failed")]
                      /\ UNCHANGED <<exists, current>>
                 ELSE /\ exists' = exists \cup {ProjectFileKey(canonical)}
                      /\ current' = NewProject(canonical)
                      /\ rq' = Detach(t, Done(r))
                      /\ resp' = [resp EXCEPT ![t] =
                           [Answer(200, NoneId, NoTask, "") EXCEPT !.currentProject = canonical]]
            /\ UNCHANGED <<tags, tagged, files, deleted, unreadable>>

\* ProjectManager.edit_project_name: the task file follows the name when
\* the old file exists
RenamedFiles(old, new) ==
  IF get_task_file_path(old) \in exists /\ get_task_file_path(old) # get_task_file_path(new)
    THEN [files EXCEPT ![get_task_file_path(new)] = files[get_task_file_path(old)],
                       ![get_task_file_path(old)] = <<>>]
    ELSE files

RenamedExists(old, new) ==
  IF get_task_file_path(old) \in exists
    THEN (exists \ {get_task_file_path(old)}) \cup {get_task_file_path(new)}
    ELSE exists

\* ProjectManager.edit_project_name: the tags move to the new lowercase key
\* (if old_key in tags_by_project: tags_by_project[new_key] = tags_by_project.pop(old_key))
RenamedTags(old, new) ==
  IF Lower(old) \in tagged /\ Lower(old) # Lower(new)
    THEN [tags EXCEPT ![Lower(new)] = tags[Lower(old)], ![Lower(old)] = <<>>]
    ELSE tags

RenamedTagged(old, new) ==
  IF Lower(old) \in tagged
    THEN (tagged \ {Lower(old)}) \cup {Lower(new)}
    ELSE tagged

\* os.rename: an unreadable file stays unreadable under its new path, and
\* a renamed file replaces the one at the new path
RenamedUnreadable(old, new) ==
  IF get_task_file_path(old) \in exists /\ get_task_file_path(old) # get_task_file_path(new)
    THEN IF get_task_file_path(old) \in unreadable
           THEN (unreadable \ {get_task_file_path(old)}) \cup {get_task_file_path(new)}
           ELSE unreadable \ {get_task_file_path(new)}
    ELSE unreadable

RenamedProjects(old, new) ==
  [projects EXCEPT ![FirstIndex(ProjectsLower, Lower(old))] = new]

\* POST /api/projects/edit-name
EditName(t, r) ==
  LET old == Strip(r.name)
      new == Strip(r.new)
  IN
  IF r.bad
    THEN /\ rq' = [rq EXCEPT ![t] = Done(r)]
         /\ resp' = [resp EXCEPT ![t] = Answer(400, NoneId, NoTask, "Invalid JSON")]
         /\ UNCHANGED <<projects, tags, tagged, exists, files, current, deleted, unreadable>>
  ELSE IF old = <<>> \/ new = <<>>
    THEN /\ rq' = [rq EXCEPT ![t] = Done(r)]
         /\ resp' = [resp EXCEPT ![t] =
                       Answer(400, NoneId, NoTask, "'old_name' and 'new_name' required")]
         /\ UNCHANGED <<projects, tags, tagged, exists, files, current, deleted, unreadable>>
  ELSE IF ~EditAccepted(old, new)
    THEN /\ rq' = [rq EXCEPT ![t] = Done(r)]
         \* self._json({"ok": False}, 400): the body has no "error" key
         /\ resp' = [resp EXCEPT ![t] = Answer(400, NoneId, NoTask, "")]
         /\ UNCHANGED <<projects, tags, tagged, exists, files, current, deleted, unreadable>>
  ELSE /\ projects' = RenamedProjects(old, new)
       /\ tags' = RenamedTags(old, new)
       /\ tagged' = RenamedTagged(old, new)
       /\ files' = RenamedFiles(old, new)
       /\ unreadable' = RenamedUnreadable(old, new)
       /\ IF UsesCurrent(old) /\ ProjectFileKey(new) \in RenamedUnreadable(old, new)
            THEN \* Project(new) raises outside any try
                 /\ exists' = RenamedExists(old, new)
                 /\ rq' = [rq EXCEPT ![t] = Done(r)]
                 /\ resp' = [resp EXCEPT ![t] = Unhandled]
                 /\ UNCHANGED current
            ELSE /\ IF UsesCurrent(old)
                      THEN /\ current' = [some |-> TRUE, name |-> new,
                                          tasks |-> RenamedFiles(old, new)[ProjectFileKey(new)]]
                           /\ exists' = RenamedExists(old, new) \cup {ProjectFileKey(new)}
                           /\ rq' = Detach(t, Done(r))
                      ELSE /\ exists' = RenamedExists(old, new)
                           /\ rq' = [rq EXCEPT ![t] = Done(r)]
                           /\ UNCHANGED current
                 /\ resp' = [resp EXCEPT ![t] =
                      [Answer(200, NoneId, NoTask, "") EXCEPT
                         !.currentProject = IF UsesCurrent(old) THEN new
                                            ELSE IF current.some THEN current.name ELSE <<>>]]
       /\ UNCHANGED deleted

\* no route answers a body it could not read by itself
RejectsNone(kind) == FALSE

\* the update and highlight routes answer 400 when _read_json gave None,
\* before a Project is chosen
RejectsNoBody(kind) == kind \in {"update", "highlight"}

\* the task routes up to the choice of the Project object
RouteTask(t, r) ==
  IF RouteNameInvalid(r.name)
    THEN /\ rq' = [rq EXCEPT ![t] = Done(r)]
         /\ resp' = [resp EXCEPT ![t] = Answer(400, NoneId, NoTask, "Invalid project name")]
         /\ UNCHANGED <<projects, tags, tagged, exists, files, current, deleted, unreadable>>
    ELSE IF r.bad /\ RejectsNoBody(r.kind)
      THEN /\ rq' = [rq EXCEPT ![t] = Done(r)]
           /\ resp' = [resp EXCEPT ![t] = Answer(400, NoneId, NoTask, "Invalid JSON")]
           /\ UNCHANGED <<projects, tags, tagged, exists, files, current, deleted, unreadable>>
    ELSE IF ~UsesCurrent(r.name) /\ LoadFails(r.name)
      THEN \* Project(name) raises: the create, delete and highlight routes
           \* catch it, the update route has no try
           /\ rq' = [rq EXCEPT ![t] = Done(r)]
           /\ resp' = [resp EXCEPT ![t] =
                IF r.kind = "update" THEN Unhandled
                ELSE Answer(500, NoneId, NoTask, "Failed")]
           /\ UNCHANGED <<projects, tags, tagged, exists, files, current, deleted, unreadable>>
    ELSE /\ rq' = [rq EXCEPT ![t] =
              [r EXCEPT !.phase = "routed",
                        \* create: body = {} when _read_json gave None
                        !.body = IF r.bad /\ r.kind = "create" THEN EmptyBody ELSE r.body,
                        !.shared = UsesCurrent(r.name),
                        !.obj = IF UsesCurrent(r.name) THEN NoProject ELSE NewProject(r.name)]]
         /\ exists' = IF UsesCurrent(r.name) THEN exists
                      ELSE exists \cup {ProjectFileKey(r.name)}
         /\ UNCHANGED <<projects, tags, tagged, files, current, resp, deleted, unreadable>>

\* GET /api/projects/<name>/tasks: Project has no iter_tasks, so the
\* comprehension raises AttributeError after Project(name) opened the file;
\* the except branch answers with an empty list
\* taskman/project.py: the Project class defines no iter_tasks
HasIterTasks == FALSE

\* the try block of the route raises: Project(name) on a file it cannot
\* load, proj.iter_tasks() on every Project
ListRaises(name) == (~UsesCurrent(name) /\ LoadFails(name)) \/ ~HasIterTasks

\* a route without the except branch: the exception leaves do_GET
ListAnswerUncaught(raised) ==
  IF raised THEN Unhandled ELSE Answer(200, NoneId, NoTask, "")

\* except Exception: tasks = []; then self._json({"project": name, "tasks": tasks})
ListAnswer(raised) == Answer(200, NoneId, NoTask, "")

ListTasks(t, r) ==
  IF ListNameInvalid(r.name)
    THEN /\ rq' = [rq EXCEPT ![t] = Done(r)]
         /\ resp' = [resp EXCEPT ![t] = Answer(400, NoneId, NoTask, "Invalid project name")]
         /\ UNCHANGED <<projects, tags, tagged, exists, files, current, deleted, unreadable>>
    ELSE /\ rq' = [rq EXCEPT ![t] = Done(r)]
         /\ resp' = [resp EXCEPT ![t] = ListAnswer(ListRaises(r.name))]
         /\ exists' = IF UsesCurrent(r.name) \/ ~OpenCreates(r.name) THEN exists
                      ELSE exists \cup {ProjectFileKey(r.name)}
         /\ UNCHANGED <<projects, tags, tagged, files, current, deleted, unreadable>>

\* a request arrives and its handler runs up to the choice of the Project
ApiBegin(t, r, limit) ==
  /\ rq[t].phase \in {"idle", "done"}
  /\ nreq[t] < limit
  /\ nreq' = [nreq EXCEPT ![t] = @ + 1]
  /\ CASE r.kind = "open" -> OpenProject(t, r)
       [] r.kind = "edit-name" -> EditName(t, r)
       [] r.kind = "list" -> ListTasks(t, r)
       [] OTHER -> RouteTask(t, r)
  /\ UNCHANGED <<storeVars, fnVars>>

\* the handler's Project object gets a new task list
SetTasks(t, newTasks, out) ==
  IF rq[t].shared
    THEN /\ current' = [current EXCEPT !.tasks = newTasks]
         /\ rq' = [rq EXCEPT ![t].phase = "mutated", ![t].out = out]
    ELSE /\ rq' = [rq EXCEPT ![t].phase = "mutated", ![t].out = out,
                             ![t].obj.tasks = newTasks]
         /\ UNCHANGED current

Reject(t, error) ==
  /\ rq' = [rq EXCEPT ![t] = Done(rq[t])]
  /\ resp' = [resp EXCEPT ![t] = Answer(400, NoneId, NoTask, error)]
  /\ UNCHANGED current

\* Project.*_from_payload up to the change of self.tasks
ApiApply(t) ==
  /\ rq[t].phase = "routed"
  /\ LET r == rq[t]
         tasks == Proj(t).tasks
     IN CASE r.kind = "create" ->
               /\ SetTasks(t, Append(tasks, TaskFromPayload(r.body)), TaskFromPayload(r.body))
               /\ UNCHANGED resp
          [] r.kind = "update" ->
               IF UpdateError(tasks, r.index, r.body) # ""
                 THEN Reject(t, UpdateError(tasks, r.index, r.body))
                 ELSE /\ SetTasks(t, SetAt(tasks, r.index, ApplyFields(tasks[r.index + 1], r.body)),
                                  ApplyFields(tasks[r.index + 1], r.body))
                      /\ UNCHANGED resp
          [] r.kind = "highlight" ->
               \* the payload carries "id", never "index": the index defaults to -1
               Reject(t, UpdateError(tasks, NoneId, r.body))
          [] r.kind = "delete" ->
               IF r.bad
                 THEN Reject(t, "Invalid payload")
               ELSE IF r.index < 0 \/ r.index >= Len(tasks)
                 THEN Reject(t, "Index out of range")
                 ELSE /\ SetTasks(t, PopAt(tasks, r.index), tasks[r.index + 1])
                      /\ UNCHANGED resp
  /\ UNCHANGED <<projects, tags, tagged, exists, files, nreq, deleted, unreadable>>
  /\ UNCHANGED <<storeVars, fnVars>>

\* save_tasks_to_file, then the response
ApiSaveRespond(t) ==
  /\ rq[t].phase = "mutated"
  /\ LET r == rq[t]
         p == Proj(t)
     IN /\ files' = [files EXCEPT ![ProjectFileKey(p.name)] = p.tasks]
        /\ resp' = [resp EXCEPT ![t] =
             Answer(200, IF r.kind = "create" THEN Len(p.tasks) - 1 ELSE r.index, r.out, "")]
        /\ deleted' = IF r.kind = "delete" THEN deleted \cup {[project |-> Lower(p.name), index |-> r.index, id |-> r.out.id]}
                      ELSE deleted
        /\ rq' = [rq EXCEPT ![t] = Done(r)]
  /\ unreadable' = unreadable \ {ProjectFileKey(Proj(t).name)}
  /\ UNCHANGED <<projects, tags, tagged, exists, current, nreq>>
  /\ UNCHANGED <<storeVars, fnVars>>

\* ------------------------------------- open and edit-name, statement by statement
\* POST /api/projects/open up to save_project_name's membership test
\* (load_project_names(True)); a name found is resolved to its stored casing
OpenCheck(t, r, limit) ==
  /\ r.kind = "open"
  /\ rq[t].phase \in {"idle", "done"}
  /\ nreq[t] < limit
  /\ nreq' = [nreq EXCEPT ![t] = @ + 1]
  /\ LET name == Strip(r.name) IN
       IF r.bad \/ name = <<>>
         THEN /\ rq' = [rq EXCEPT ![t] = Done(r)]
              /\ resp' = [resp EXCEPT ![t] = Answer(400, NoneId, NoTask, "Missing 'name'")]
         ELSE /\ rq' = [rq EXCEPT ![t] =
                   IF InSeq(ProjectsLower, Lower(name))
                     THEN [r EXCEPT !.phase = "open-init",
                                    !.canonical = resolve_canonical_name(name)]
                     ELSE [r EXCEPT !.phase = "open-load"]]
              /\ UNCHANGED resp
  /\ UNCHANGED <<projects, tags, tagged, exists, files, current, deleted, unreadable>>
  /\ UNCHANGED <<storeVars, fnVars>>

\* save_project_name: projects = load_project_names(False)
OpenLoad(t) ==
  /\ rq[t].phase = "open-load"
  /\ rq' = [rq EXCEPT ![t].seen = projects, ![t].phase = "open-write"]
  /\ UNCHANGED <<projects, tags, tagged, exists, files, current, resp, nreq, deleted, unreadable>>
  /\ UNCHANGED <<storeVars, fnVars>>

\* save_project_name: projects.append(project_name); json.dump(projects, file)
OpenWrite(t) ==
  /\ rq[t].phase = "open-write"
  /\ projects' = Append(rq[t].seen, Strip(rq[t].name))
  /\ rq' = [rq EXCEPT ![t].canonical = Strip(rq[t].name), ![t].phase = "open-init"]
  /\ UNCHANGED <<tags, tagged, exists, files, current, resp, nreq, deleted, unreadable>>
  /\ UNCHANGED <<storeVars, fnVars>>

\* proj = Project(canonical); setattr(self.server, "current_project", proj)
OpenInit(t) ==
  /\ rq[t].phase = "open-init"
  /\ LET canonical == rq[t].canonical IN
       IF LoadFails(canonical)
         THEN /\ rq' = [rq EXCEPT ![t] = Done(rq[t])]
              /\ resp' = [resp EXCEPT ![t] = Answer(500, NoneId, NoTask, "load failed")]
              /\ UNCHANGED <<exists, current>>
         ELSE /\ exists' = exists \cup {ProjectFileKey(canonical)}
              /\ current' = NewProject(canonical)
              /\ rq' = Detach(t, Done(rq[t]))
              /\ resp' = [resp EXCEPT ![t] =
                   [Answer(200, NoneId, NoTask, "") EXCEPT !.currentProject = canonical]]
  /\ UNCHANGED <<projects, tags, tagged, files, nreq, deleted, unreadable>>
  /\ UNCHANGED <<storeVars, fnVars>>

\* POST /api/projects/edit-name up to the return of
\* ProjectManager.edit_project_name
EditBegin(t, r, limit) ==
  /\ r.kind = "edit-name"
  /\ rq[t].phase \in {"idle", "done"}
  /\ nreq[t] < limit
  /\ nreq' = [nreq EXCEPT ![t] = @ + 1]
  /\ LET old == Strip(r.name)
         new == Strip(r.new)
     IN IF r.bad \/ old = <<>> \/ new = <<>> \/ ~EditAccepted(old, new)
          THEN /\ rq' = [rq EXCEPT ![t] = Done(r)]
               /\ resp' = [resp EXCEPT ![t] =
                    Answer(400, NoneId, NoTask,
                           IF r.bad THEN "Invalid JSON"
                           ELSE IF old = <<>> \/ new = <<>>
                             THEN "'old_name' and 'new_name' required"
                           ELSE "")]
               /\ UNCHANGED <<projects, tags, tagged, exists, files, unreadable>>
          ELSE /\ projects' = RenamedProjects(old, new)
               /\ tags' = RenamedTags(old, new)
               /\ tagged' = RenamedTagged(old, new)
               /\ files' = RenamedFiles(old, new)
               /\ unreadable' = RenamedUnreadable(old, new)
               /\ exists' = RenamedExists(old, new)
               /\ rq' = [rq EXCEPT ![t] = [r EXCEPT !.phase = "edit-read"]]
               /\ UNCHANGED resp
  /\ UNCHANGED <<current, deleted>>
  /\ UNCHANGED <<storeVars, fnVars>>

\* cur_obj = getattr(self.server, "current_project", None) and the test
\* of its name against old
EditRead(t) ==
  /\ rq[t].phase = "edit-read"
  /\ IF UsesCurrent(Strip(rq[t].name))
       THEN /\ rq' = [rq EXCEPT ![t].phase = "edit-set"]
            /\ UNCHANGED resp
       ELSE /\ rq' = [rq EXCEPT ![t] = Done(rq[t])]
            /\ resp' = [resp EXCEPT ![t] =
                 [Answer(200, NoneId, NoTask, "") EXCEPT
                    !.currentProject = IF current.some THEN current.name ELSE <<>>]]
  /\ UNCHANGED <<projects, tags, tagged, exists, files, current, nreq, deleted, unreadable>>
  /\ UNCHANGED <<storeVars, fnVars>>

\* setattr(self.server, "current_project", Project(new)), then the answer
EditSet(t) ==
  /\ rq[t].phase = "edit-set"
  /\ LET new == Strip(rq[t].new) IN
       IF LoadFails(new)
         THEN /\ rq' = [rq EXCEPT ![t] = Done(rq[t])]
              /\ resp' = [resp EXCEPT ![t] = Unhandled]
              /\ UNCHANGED <<exists, current>>
         ELSE /\ exists' = exists \cup {ProjectFileKey(new)}
              /\ current' = NewProject(new)
              /\ rq' = Detach(t, Done(rq[t]))
              /\ resp' = [resp EXCEPT ![t] =
                   [Answer(200, NoneId, NoTask, "") EXCEPT !.currentProject = new]]
  /\ UNCHANGED <<projects, tags, tagged, files, nreq, deleted, unreadable>>
  /\ UNCHANGED <<storeVars, fnVars>>

\* ------------------------------------------------------------ project tags
\* list(dict.fromkeys(values)): the first occurrence of every value, in order
RECURSIVE Dedup(_)
Dedup(values) ==
  IF values = <<>> THEN <<>>
  ELSE LET rest == Dedup(SubSeq(values, 1, Len(values) - 1))
           last == values[Len(values)]
       IN IF InSeq(rest, last) THEN rest ELSE Append(rest, last)

\* ProjectManager.load_project_tags: per lowercase key, the values without
\* duplicates
load_project_tags == [k \in TagKeys |-> Dedup(tags[k])]

\* every non-empty value is appended
AdmitsAny(cur, val) == val # <<>>

\* add_tags_for_project: a stripped value is appended when it is not empty
\* and not in the list yet
Admits(cur, val) == val # <<>> /\ ~InSeq(cur, val)

\* the loop of add_tags_for_project
RECURSIVE AddValues(_, _)
AddValues(cur, new) ==
  IF new = <<>> THEN cur
  ELSE AddValues(IF Admits(cur, Strip(Head(new)))
                   THEN Append(cur, Strip(Head(new))) ELSE cur,
                 Tail(new))

\* [t for t in existing if t != tag]
WithoutTag(existing, tag) ==
  LET Keep(v) == v # tag IN SelectSeq(existing, Keep)

NoTagRet == [op |-> "none", project |-> <<>>, tags |-> <<>>, tag |-> <<>>, result |-> <<>>]

\* ProjectManager.add_tags_for_project
AddTags(name, new) ==
  LET updated == AddValues(Dedup(load_project_tags[Lower(name)]), new)
  IN /\ tags' = [load_project_tags EXCEPT ![Lower(name)] = updated]
     /\ tagRet' = [NoTagRet EXCEPT !.op = "add", !.project = name, !.tags = new,
                                   !.result = updated]
     /\ tagged' = tagged \cup {Lower(name)}
     /\ UNCHANGED <<projects, exists, files, current, rq, resp, nreq, deleted, unreadable>>
     /\ UNCHANGED <<storeVars, nameArg, tableOut, srv>>

\* ProjectManager.remove_tag_for_project
RemoveTag(name, tag) ==
  LET cleaned == WithoutTag(load_project_tags[Lower(name)], tag)
  IN /\ tags' = [load_project_tags EXCEPT ![Lower(name)] = cleaned]
     /\ tagRet' = [NoTagRet EXCEPT !.op = "remove", !.project = name, !.tag = tag,
                                   !.result = cleaned]
     /\ tagged' = tagged \cup {Lower(name)}
     /\ UNCHANGED <<projects, exists, files, current, rq, resp, nreq, deleted, unreadable>>
     /\ UNCHANGED <<storeVars, nameArg, tableOut, srv>>

\* ProjectManager.get_tags_for_project
GetTags(name) ==
  /\ tagRet' = [NoTagRet EXCEPT !.op = "get", !.project = name,
                                !.result = load_project_tags[Lower(name)]]
  /\ UNCHANGED <<apiVars, storeVars, nameArg, tableOut, srv>>

\* --------------------------------------------------------- the table name
NoOut == [result |-> "none", table |-> <<>>]

\* a call of _project_table_name(nameArg)
ApplyTableName ==
  /\ tableOut = NoOut
  /\ tableOut' = IF NameRejected(nameArg)
                   THEN [result |-> "ValueError", table |-> <<>>]
                   ELSE [result |-> "ok", table |-> _project_table_name(nameArg)]
  /\ UNCHANGED <<apiVars, storeVars, nameArg, tagRet, srv>>

\* ------------------------------------------------------- the server's life
\* start_server: httpd.serve_forever() is running; no /api/exit handler is
\* at work and no shutdown thread exists
ServerStarted ==
  [loop |-> "serving", shutdown_request |-> FALSE, interrupted |-> FALSE,
   pos |-> [t \in Threads |-> 0], helper |-> [t \in Threads |-> "none"],
   wrote |-> {}, sent |-> {}]

\* the /api/exit branch of do_POST starts the thread before it answers
ExitOrderSpawnFirst == <<"spawn", "write", "flush">>

\* the /api/exit branch of do_POST: self._json(...), self.wfile.flush(),
\* threading.Thread(target=_shutdown, daemon=True).start()
ExitOrder == <<"write", "flush", "spawn">>

\* the serve loop hands a request to a new handler thread
Accept(t, r, limit) ==
  /\ srv.loop = "serving"
  /\ ApiBegin(t, r, limit)

\* POST /api/exit reaches its handler; a client sends it once
ExitReceive(t, limit) ==
  /\ srv.loop = "serving"
  /\ rq[t].phase \in {"idle", "done"}
  /\ nreq[t] < limit
  /\ srv.helper[t] = "none"
  /\ nreq' = [nreq EXCEPT ![t] = @ + 1]
  /\ rq' = [rq EXCEPT ![t] = [NoReq EXCEPT !.kind = "exit", !.phase = "exiting"]]
  /\ srv' = [srv EXCEPT !.pos[t] = 1]
  /\ UNCHANGED <<projects, tags, tagged, exists, files, current, resp, deleted, unreadable>>
  /\ UNCHANGED <<storeVars, nameArg, tableOut, tagRet>>

\* one statement of the /api/exit branch
ExitStep(t) ==
  /\ rq[t].phase = "exiting"
  /\ LET op == ExitOrder[srv.pos[t]]
         last == srv.pos[t] = Len(ExitOrder)
     IN /\ rq' = IF last THEN [rq EXCEPT ![t] = Done(rq[t])] ELSE rq
        /\ resp' = IF op = "write"
                     THEN [resp EXCEPT ![t] = Answer(200, NoneId, NoTask, "")]
                     ELSE resp
        /\ srv' = [srv EXCEPT
                     !.pos[t] = IF last THEN 0 ELSE @ + 1,
                     !.wrote = IF op = "write" THEN @ \cup {t} ELSE @,
                     !.sent = IF op = "flush" /\ t \in srv.wrote THEN @ \cup {t} ELSE @,
                     !.helper[t] = IF op = "spawn" THEN "sleeping" ELSE @]
  /\ UNCHANGED <<projects, tags, tagged, exists, files, current, nreq, deleted, unreadable>>
  /\ UNCHANGED <<storeVars, nameArg, tableOut, tagRet>>

\* the thread sleeps and ends without calling shutdown()
_sleep_only(s, t) == [s EXCEPT !.helper[t] = "waiting"]

\* _shutdown: after time.sleep(0.15), self.server.shutdown() sets the
\* shutdown request and waits for the serve loop
_shutdown(s, t) == [s EXCEPT !.helper[t] = "waiting", !.shutdown_request = TRUE]

\* the shutdown thread runs
HelperShutdown(t) ==
  /\ srv.helper[t] = "sleeping"
  /\ srv' = _shutdown(srv, t)
  /\ UNCHANGED <<apiVars, storeVars, nameArg, tableOut, tagRet>>

\* BaseServer.shutdown returns once serve_forever has left its loop
HelperReturn(t) ==
  /\ srv.helper[t] = "waiting"
  /\ srv.loop # "serving"
  /\ srv' = [srv EXCEPT !.helper[t] = "finished"]
  /\ UNCHANGED <<apiVars, storeVars, nameArg, tableOut, tagRet>>

\* BaseServer.serve_forever: the loop sees the shutdown request at its next
\* poll and ends; its finally clause clears the request
ServeStop ==
  /\ srv.loop = "serving"
  /\ srv.shutdown_request
  /\ srv' = [srv EXCEPT !.loop = "stopped", !.shutdown_request = FALSE]
  /\ UNCHANGED <<apiVars, storeVars, nameArg, tableOut, tagRet>>

\* start_server: KeyboardInterrupt ends serve_forever
Interrupt ==
  /\ srv.loop = "serving"
  /\ srv' = [srv EXCEPT !.loop = "stopped", !.shutdown_request = FALSE,
                        !.interrupted = TRUE]
  /\ UNCHANGED <<apiVars, storeVars, nameArg, tableOut, tagRet>>

\* start_server: finally httpd.server_close(); the handler threads are
\* daemon threads and are not waited for
ServerClose ==
  /\ srv.loop = "stopped"
  /\ srv' = [srv EXCEPT !.loop = "closed"]
  /\ UNCHANGED <<apiVars, storeVars, nameArg, tableOut, tagRet>>

\* ------------------------------------------------------------- the requests
Req(kind, name, index, body, new) ==
  [NoReq EXCEPT !.kind = kind, !.name = name, !.index = index, !.body = body, !.new = new]

CreateBodies ==
  { EmptyBody, [summary |-> "s", status |-> "Completed"], [status |-> "Started"],
    [assignee |-> "u", priority |-> "Urgent"] }

FieldSets ==
  { [status |-> "Completed"], [priority |-> "High"], [foo |-> "x"],
    [status |-> "Started"], EmptyBody,
    [status |-> "Completed", priority |-> "High"],
    [summary |-> "n", status |-> "Started"],
    [summary |-> "n", foo |-> "x"],
    [summary |-> "n", priority |-> "Urgent"] }

\* -1 is the "index" a payload without the key gets
Indexes == {NoneId} \cup 0..MaxIndex

TaskRequests(names, bodies, fields, indexes) ==
  {Req("create", n, NoneId, b, <<>>) : n \in names, b \in bodies}
    \cup {Req("update", n, i, f, <<>>) : n \in names, i \in indexes, f \in fields}
    \cup {Req("delete", n, i, EmptyBody, <<>>) : n \in names, i \in indexes}
    \cup {Req("highlight", n, 0, [highlight |-> "true"], <<>>) : n \in names}

OpenRequests(names) == {Req("open", n, NoneId, EmptyBody, <<>>) : n \in names}

\* the same requests with a Content-Length that is not an integer or a body
\* that is not JSON: _read_json gives None
Malformed(reqs) == {[r EXCEPT !.bad = TRUE] : r \in reqs}

ListRequests(names) == {Req("list", n, NoneId, EmptyBody, <<>>) : n \in names}

RenameRequests(names) ==
  {Req("edit-name", o, NoneId, EmptyBody, n) : o \in names, n \in names}

\* ---------------------------------------------------------- specifications
\* start_server: current_project = None; the data directory holds project
\* "b" of an earlier session (two tasks, one tag) and a task file
\* "1_tasks.json" in the {"last_id": ..., "tasks": [...]} layout, which this
\* Project cannot load
ApiInit ==
  /\ projects = << <<"b">> >>
  /\ tags = [k \in TagKeys |-> IF k = <<"b">> THEN SeedTags ELSE <<>>]
  /\ tagged = { <<"b">> }
  /\ exists = { <<"b">>, <<"1">> }
  /\ unreadable = { <<"1">> }
  /\ files = [k \in FileKeys |-> IF k = <<"b">> THEN SeedTasks ELSE <<>>]
  /\ current = NoProject
  /\ rq = [t \in Threads |-> NoReq]
  /\ resp = [t \in Threads |-> NoResp]
  /\ nreq = [t \in Threads |-> 0]
  /\ deleted = {}

FnInit ==
  /\ nameArg = <<>>
  /\ tableOut = NoOut
  /\ tagRet = NoTagRet
  /\ srv = ServerStarted

Init == StoreInit /\ ApiInit /\ FnInit

\* the storage engine used by two threads
ConcNames == { <<"c">> }

StoreNext == Open \/ Close \/ \E t \in Threads : StoreStep(t, ConcNames)

SpecStore == Init /\ [][StoreNext]_vars

\* the storage engine used by one thread on several projects
NamingNext == Open \/ Close \/ StoreStep(1, StoreNames)

SpecNaming == Init /\ [][NamingNext]_vars

\* two request threads of the ThreadingHTTPServer
ConcRequests ==
  TaskRequests({<<"b">>, <<".", "c">>}, {EmptyBody},
               {[status |-> "Completed"], [priority |-> "High"], [foo |-> "x"]}, {0, MaxIndex})
    \cup OpenRequests({<<"b">>, <<" ">>})

ApiNext ==
  \E t \in Threads :
    \/ \E r \in ConcRequests : ApiBegin(t, r, MaxReq)
    \/ ApiApply(t)
    \/ ApiSaveRespond(t)

SpecApi == Init /\ [][ApiNext]_vars

\* one client, one request after the other
SeqRequests ==
  TaskRequests(RouteNames, CreateBodies, FieldSets, Indexes) \cup OpenRequests(OpenNames)

ApiSeqNext ==
  \/ \E r \in SeqRequests : ApiBegin(1, r, MaxSeqReq)
  \/ ApiApply(1)
  \/ ApiSaveRespond(1)

SpecApiSeq == Init /\ [][ApiSeqNext]_vars

\* one client opening and renaming projects whose rows are in the engine
RegistryStep ==
  \E r \in OpenRequests(RenameNames) \cup RenameRequests(RenameNames) :
    ApiBegin(1, r, MaxRenameReq)

RenameNext == RegistryStep \/ Open \/ Close \/ StoreStep(1, RenameStoreNames)

SpecRename == Init /\ [][RenameNext]_vars

\* one client calling every task route with valid and invalid names
RouteRequests ==
  TaskRequests(RouteCheckNames, {EmptyBody}, {[status |-> "Completed"]}, {0})
    \cup ListRequests(RouteCheckNames)
    \cup OpenRequests({<<"1">>, <<"b">>})

RoutesNext ==
  \/ \E r \in RouteRequests : ApiBegin(1, r, MaxRouteReq)
  \/ ApiApply(1)
  \/ ApiSaveRespond(1)

SpecRoutes == Init /\ [][RoutesNext]_vars

\* the project names the naming function is applied to: every string of
\* at most MaxNameLen of these characters
NameChars == {"a", "A", "b", "0", "_", "-", " ", "."}

Names == UNION {[1..k -> NameChars] : k \in 0..MaxNameLen}

InitTableName ==
  /\ StoreInit
  /\ ApiInit
  /\ nameArg \in Names
  /\ tableOut = NoOut
  /\ tagRet = NoTagRet
  /\ srv = ServerStarted

TableNameNext == ApplyTableName

SpecTableName == InitTableName /\ [][TableNameNext]_vars

\* one caller of the tag helpers
TagProjects == { <<"b">>, <<"B">>, <<"c">> }

TagValues == { <<"x">>, <<"X">>, <<"y">>, <<" ", "x">>, <<" ">> }

TagLists ==
  {<<v>> : v \in TagValues}
    \cup { <<>>, << <<"y">>, <<"y">> >>, << <<"y">>, <<" ", "x">>, <<"X">> >> }

TagsNext ==
  \/ \E n \in TagProjects, new \in TagLists : AddTags(n, new)
  \/ \E n \in TagProjects, tag \in TagValues : RemoveTag(n, tag)
  \/ \E n \in TagProjects : GetTags(n)

SpecTags == Init /\ [][TagsNext]_vars

\* one client sending well-formed and malformed POST requests
MalformedRequests ==
  Malformed(TaskRequests({<<"b">>, <<"1">>, <<".", "c">>}, {[summary |-> "s", status |-> "Completed"]},
                         {[status |-> "Completed"]}, {0})
              \cup OpenRequests({<<"c">>})
              \cup RenameRequests({<<"b">>, <<"c">>}))
    \cup OpenRequests({<<"b">>})
    \cup TaskRequests({<<"b">>}, {EmptyBody}, {[status |-> "Completed"]}, {0})

MalformedNext ==
  \/ \E r \in MalformedRequests : ApiBegin(1, r, MaxMalformedReq)
  \/ ApiApply(1)
  \/ ApiSaveRespond(1)

SpecMalformed == Init /\ [][MalformedNext]_vars

\* two clients and the server's life: task requests, /api/exit, Ctrl+C
MaxExitReq == 2

ShutdownRequests ==
  TaskRequests({<<"b">>}, {EmptyBody}, {[status |-> "Completed"]}, {0})

ShutdownNext ==
  \/ \E t \in Threads :
       \/ \E r \in ShutdownRequests : Accept(t, r, MaxExitReq)
       \/ ApiApply(t)
       \/ ApiSaveRespond(t)
       \/ ExitReceive(t, MaxExitReq)
       \/ ExitStep(t)
       \/ HelperShutdown(t)
       \/ HelperReturn(t)
  \/ ServeStop
  \/ Interrupt
  \/ ServerClose

SpecShutdown == Init /\ [][ShutdownNext]_vars

\* every thread that can run does run: the handler of /api/exit, the
\* shutdown thread after its sleep, the serve loop at its next poll, and
\* start_server's finally clause
ShutdownFairness ==
  /\ \A t \in Threads : WF_vars(ExitStep(t)) /\ WF_vars(HelperShutdown(t))
  /\ WF_vars(ServeStop)
  /\ WF_vars(ServerClose)

SpecShutdownLive == Init /\ [][ShutdownNext]_vars /\ ShutdownFairness

\* two clients opening and renaming projects at the same time
MaxConcRegistryReq == 2

ConcRegistryRequests ==
  OpenRequests({<<"b">>, <<"c">>, <<"C">>}) \cup RenameRequests({<<"c">>, <<"a">>})

ConcRegistryNext ==
  \E t \in Threads :
    \/ \E r \in ConcRegistryRequests : OpenCheck(t, r, MaxConcRegistryReq)
    \/ \E r \in ConcRegistryRequests : EditBegin(t, r, MaxConcRegistryReq)
    \/ OpenLoad(t)
    \/ OpenWrite(t)
    \/ OpenInit(t)
    \/ EditRead(t)
    \/ EditSet(t)

SpecConcRegistry == Init /\ [][ConcRegistryNext]_vars

\* one client opening projects and renaming them, also onto the name of
\* the task file that cannot be loaded
MaxCurrentReq == 3

CurrentRequests ==
  OpenRequests({<<"b">>, <<"C">>})
    \cup RenameRequests({<<"b">>, <<"B">>, <<"C">>, <<"a">>, <<"1">>})

CurrentNext == \E r \in CurrentRequests : ApiBegin(1, r, MaxCurrentReq)

SpecCurrent == Init /\ [][CurrentNext]_vars

\* one caller tagging, opening and renaming projects
MaxTagRenameReq == 2

TagRenameNames == { <<"b">>, <<"c">>, <<"a">> }

TagRenameNext ==
  \/ \E r \in OpenRequests({<<"c">>}) \cup RenameRequests(TagRenameNames) :
       ApiBegin(1, r, MaxTagRenameReq)
  \/ \E n \in TagRenameNames : AddTags(n, << <<"y">> >>)
  \/ \E n \in TagRenameNames : RemoveTag(n, <<"x">>)
  \/ \E n \in TagRenameNames : GetTags(n)

SpecTagRename == Init /\ [][TagRenameNext]_vars

\* one client opening and renaming projects
RegistryNext ==
  \E r \in OpenRequests(RegistryNames) \cup RenameRequests(RegistryNames) :
    ApiBegin(1, r, MaxRegistryReq)

SpecRegistry == Init /\ [][RegistryNext]_vars

\* ------------------------------------------------------------------ claims
\* C1: a bulk_replace that fails during insertion (duplicate task_id) raises
\* and leaves the project's rows exactly as they were when the call took
\* the lock: what fetch_all returns is unchanged, and no transaction stays open.
C1_BulkReplaceAtomic ==
  [][\A t \in Threads :
       (pc[t] = "rollback" /\ pc'[t] = "idle") =>
         /\ ret'[t].result = "IntegrityError"
         /\ FetchRows(db'[Table(t)]) = FetchRows(prior[t])
         /\ journal' = <<>>]_vars

\* C1 witness: a failed bulk_replace has returned while the table still
\* holds the rows it held before.
C1_Witness ==
  \E t \in Threads :
    /\ ret[t].op = "bulk_replace"
    /\ ret[t].result = "IntegrityError"
    /\ pc[t] = "idle"
    /\ db[_project_table_name(<<"c">>)] # EmptyRows

\* C8: at most one thread is between acquiring and releasing the lock, so at
\* most one thread runs a statement on the connection, and that thread owns
\* the lock.
C8_MutualExclusion ==
  /\ \A t1, t2 \in Threads :
       (pc[t1] \in ExecPcs /\ pc[t2] \in ExecPcs) => t1 = t2
  /\ \A t \in Threads : pc[t] \in ExecPcs => (lockOwner = t /\ lockCount = 1)

\* C8 witness: one thread runs a statement while the other waits for the lock.
C8_Witness ==
  \E t1, t2 \in Threads :
    /\ pc[t1] \in ExecPcs
    /\ pc[t2] \in {"ensure_wait", "body_wait"}

\* the storage operations that write rows
WriteOps == {"upsert_task", "bulk_replace", "delete_task"}

\* C9 (as claimed): for valid names P and Q that differ case-insensitively,
\* no statement of a write operation on P changes what fetch_all(Q) returns.
C9_ProjectsIndependent ==
  [][\A t \in Threads : \A q \in StoreNames :
       ( /\ pc[t] \in ExecPcs
         /\ call[t].op \in WriteOps
         /\ ~_invalid_name(call[t].project)
         /\ ~_invalid_name(q)
         /\ ~NameRejected(q)
         /\ Lower(q) # Lower(call[t].project) )
       => FetchRows(db'[_project_table_name(q)]) = FetchRows(db[_project_table_name(q)])]_vars

\* ------------------------------------------------------ claims on the task API
\* a Create / Delete request of thread t is answered with 200 in this step
Answered(t, kind) ==
  /\ rq[t].phase = "mutated"
  /\ rq[t].kind = kind
  /\ rq'[t].phase = "done"
  /\ resp'[t].status = 200

\* the ids the stored tasks carry (null ids left out)
StoredIds(tasks) == {tasks[i].id : i \in 1..Len(tasks)} \ {NoneId}

SetMax(S) == CHOOSE x \in S : \A y \in S : y <= x

\* max(S) + 1, or 0 when S is empty
NextIdOf(tasks) == IF StoredIds(tasks) = {} THEN 0 ELSE SetMax(StoredIds(tasks)) + 1

\* the task file a request of thread t is about
FileOf(t) == ProjectFileKey(rq[t].name)

\* C2: N threads that each perform one Create on the same project end with
\* exactly N more tasks in that project, addressed by N distinct identifiers
\* (here N = 2, project "b", which held the two seeded tasks).
C2_ConcurrentCreates ==
  ( \A t \in Threads :
      /\ nreq[t] = 1
      /\ rq[t].phase = "done"
      /\ rq[t].kind = "create"
      /\ rq[t].name = <<"b">>
      /\ resp[t].status = 200 )
  => /\ Len(files[<<"b">>]) = Len(SeedTasks) + Cardinality(Threads)
     /\ \A t1, t2 \in Threads : t1 # t2 => resp[t1].index # resp[t2].index

\* C3: on a fresh project the k-th Create (k = 0, 1, ...) returns id k: the
\* task a Create on the never-deleted-from project "c" answers with carries
\* as id the number of tasks created before it.
C3_SequentialIds ==
  [][ ( /\ Answered(1, "create")
        /\ rq[1].name = <<"c">>
        /\ \A d \in deleted : d.project # <<"c">> )
      => resp'[1].task.id = Len(files[<<"c">>]) ]_vars

\* C4: the id a Create assigns is max(S) + 1 over the ids S stored for the
\* project at that moment, 0 when S is empty (ids {5, 7} give 8), whether
\* the id is read from the returned task or from the returned position.
C4_IdFromLiveRows ==
  [][ Answered(1, "create")
      => \/ resp'[1].task.id = NextIdOf(files[FileOf(1)])
         \/ resp'[1].index = NextIdOf(files[FileOf(1)]) ]_vars

\* C5: an identifier that a deleted task of the project carried is never
\* given to a task created later, whether the identifier is read from the
\* returned task or from the returned position.
C5_NoIdReuse ==
  [][ Answered(1, "create")
      => \/ \A d \in deleted : d.project = Lower(rq[1].name) => d.id # resp'[1].task.id
         \/ \A d \in deleted : d.project = Lower(rq[1].name) => d.index # resp'[1].index ]_vars

\* C6: ids are stable: an answered Delete of the task at d leaves every other
\* task of the project under the identifier it was addressed by before.
C6_StableIds ==
  [][ Answered(1, "delete")
      => \A i \in 1..Len(files[FileOf(1)]) :
           i # rq[1].index + 1
             => /\ i <= Len(files'[FileOf(1)])
                /\ files'[FileOf(1)][i] = files[FileOf(1)][i] ]_vars

\* what a request leaves of a task list when it runs alone
SerialApply(tasks, r) ==
  CASE r.kind = "create" -> Append(tasks, TaskFromPayload(r.body))
    [] r.kind = "update" ->
         IF UpdateError(tasks, r.index, r.body) = ""
           THEN SetAt(tasks, r.index, ApplyFields(tasks[r.index + 1], r.body))
           ELSE tasks
    [] r.kind = "delete" ->
         IF r.index >= 0 /\ r.index < Len(tasks) THEN PopAt(tasks, r.index) ELSE tasks
    [] OTHER -> tasks

\* C7: no lost updates: when two concurrent requests on project "b", one
\* per thread, have both been answered with 200, the stored tasks are those
\* of running the two requests one after the other in some order.
C7_NoLostUpdates ==
  ( \A t \in Threads :
      /\ nreq[t] = 1
      /\ rq[t].phase = "done"
      /\ rq[t].kind \in {"create", "update", "delete"}
      /\ rq[t].name = <<"b">>
      /\ resp[t].status = 200 )
  => \/ files[<<"b">>] = SerialApply(SerialApply(SeedTasks, rq[1]), rq[2])
     \/ files[<<"b">>] = SerialApply(SerialApply(SeedTasks, rq[2]), rq[1])

\* C10: a successful rename whose table identifier changes moves the rows:
\* fetch_all(new) after the rename returns what fetch_all(old) returned
\* before it.
C10_RenameMovesTasks ==
  [][ ( /\ nreq'[1] = nreq[1] + 1
        /\ rq'[1].kind = "edit-name"
        /\ resp'[1].status = 200
        /\ _project_table_name(rq'[1].name) # _project_table_name(rq'[1].new) )
      => FetchRows(db'[_project_table_name(rq'[1].new)])
           = FetchRows(db[_project_table_name(rq'[1].name)]) ]_vars

\* ------------------------------------------------------ claims on the registry
\* thread 1 receives a request of this kind and answers it in the same step
Handled(kind) ==
  /\ nreq'[1] = nreq[1] + 1
  /\ rq'[1].kind = kind
  /\ rq'[1].phase = "done"

\* some registered project equals name ignoring case
Registered(name) == \E i \in 1..Len(projects) : Lower(projects[i]) = Lower(name)

\* C11: a rename whose old name is not registered (NotFound), or whose new
\* name is, ignoring case, a registered project other than old (Conflict),
\* is refused and leaves the registry, the tasks and the tags unchanged.
C11_RenameRefused ==
  [][ ( /\ Handled("edit-name")
        /\ \/ ~Registered(rq'[1].name)
           \/ Registered(rq'[1].new) /\ Lower(rq'[1].new) # Lower(rq'[1].name) )
      => /\ resp'[1].status = 400
         /\ UNCHANGED <<projects, tags, files, exists, db, current>> ]_vars

C11_Witness ==
  /\ rq[1].kind = "edit-name"
  /\ rq[1].phase = "done"
  /\ resp[1].status = 400
  /\ Registered(rq[1].name)
  /\ Registered(rq[1].new)
  /\ Lower(rq[1].new) # Lower(rq[1].name)

\* C12: a rename that changes only the casing succeeds; the registry then
\* holds the new casing exactly once and no other casing of it, and the
\* tasks and tags under the lowercase identifier are those of before.
C12_CaseOnlyRename ==
  [][ ( /\ Handled("edit-name")
        /\ Registered(rq'[1].name)
        /\ Lower(rq'[1].new) = Lower(rq'[1].name)
        /\ rq'[1].new # rq'[1].name )
      => /\ resp'[1].status = 200
         /\ Len(projects') = Len(projects)
         /\ Cardinality({i \in 1..Len(projects') : projects'[i] = rq'[1].new}) = 1
         /\ \A i \in 1..Len(projects') :
              Lower(projects'[i]) = Lower(rq'[1].new) => projects'[i] = rq'[1].new
         /\ files'[Lower(rq'[1].new)] = files[Lower(rq'[1].name)]
         /\ tags'[Lower(rq'[1].new)] = tags[Lower(rq'[1].name)]
         /\ _project_table_name(rq'[1].new) = _project_table_name(rq'[1].name)
         /\ db' = db ]_vars

C12_Witness ==
  /\ rq[1].kind = "edit-name"
  /\ rq[1].name = <<"b">>
  /\ rq[1].new = <<"B">>
  /\ resp[1].status = 200
  /\ projects = << <<"B">> >>
  /\ files[<<"b">>] = SeedTasks
  /\ tags[<<"b">>] = SeedTags

\* C13: opening a name that a registered project equals ignoring case
\* returns the stored casing and adds nothing; any other name is appended
\* and returned as given; so the registry never holds two names equal
\* ignoring case.
C13_UpsertProjectName ==
  /\ [](\A i, j \in 1..Len(projects) :
          Lower(projects[i]) = Lower(projects[j]) => i = j)
  /\ [][ ( Handled("open") /\ resp'[1].status = 200 )
         => IF Registered(rq'[1].name)
              THEN /\ projects' = projects
                   /\ \E i \in 1..Len(projects) :
                        /\ projects[i] = resp'[1].currentProject
                        /\ Lower(projects[i]) = Lower(rq'[1].name)
              ELSE /\ projects' = Append(projects, rq'[1].name)
                   /\ resp'[1].currentProject = rq'[1].name ]_vars

C13_Witness ==
  /\ rq[1].kind = "open"
  /\ rq[1].name = <<"B">>
  /\ resp[1].status = 200
  /\ resp[1].currentProject = <<"b">>
  /\ Len(projects) = 2

\* ------------------------------------------------ claims on the storage engine
\* the value a payload gives a text column: the payload's, "" when absent
PayloadText(task, k) == IF k \in DOMAIN task THEN task[k] ELSE ""

\* the row a payload stands for
PayloadRow(task) ==
  [summary |-> PayloadText(task, "summary"),
   assignee |-> PayloadText(task, "assignee"),
   remarks |-> PayloadText(task, "remarks"),
   status |-> PayloadText(task, "status"),
   priority |-> PayloadText(task, "priority"),
   highlight |-> IF "highlight" \in DOMAIN task THEN (IF task["highlight"] THEN 1 ELSE 0) ELSE 0]

\* the other tables keep their rows
OtherTablesSame(t) == \A tb \in TableNames \ {Table(t)} : db'[tb] = db[tb]

\* thread t runs the statement of operation op and returns
Executes(t, op) == pc[t] = "body_exec" /\ call[t].op = op /\ pc'[t] = "idle"

\* a list of fetched rows in strictly ascending id order
Ascending(rows) == \A i, j \in 1..Len(rows) : i < j => rows[i].task_id < rows[j].task_id

\* C14: upsert_task inserts the row when the id is absent and otherwise
\* overwrites every other column with the payload's values, an absent field
\* being reset; rows with other ids and other tables are unchanged.
C14_UpsertOverwrites ==
  [][ \A t \in Threads :
        Executes(t, "upsert_task")
        => /\ DOMAIN db'[Table(t)] = DOMAIN db[Table(t)] \cup {call[t].task["task_id"]}
           /\ db'[Table(t)][call[t].task["task_id"]] = PayloadRow(call[t].task)
           /\ \A i \in DOMAIN db[Table(t)] \ {call[t].task["task_id"]} :
                db'[Table(t)][i] = db[Table(t)][i]
           /\ OtherTablesSame(t)
           /\ ret'[t].result = "ok" ]_vars

C14_Witness ==
  \E t \in Threads :
    /\ ret[t].op = "upsert_task"
    /\ ret[t].result = "ok"
    /\ pc[t] = "idle"
    /\ DOMAIN db[_project_table_name(<<"c">>)] = {0, 1}
    /\ db[_project_table_name(<<"c">>)][0] = PayloadRow(TaskMin(0))
    /\ db[_project_table_name(<<"c">>)][1] = PayloadRow(TaskFull(1))

\* the ids of a batch are pairwise distinct
DistinctIds(tasks) ==
  \A i, j \in 1..Len(tasks) : tasks[i]["task_id"] = tasks[j]["task_id"] => i = j

\* C15: a bulk_replace of tasks with pairwise distinct ids commits, and
\* fetch_all then returns exactly the batch: one row per task, in ascending
\* id order, and no other row; an empty batch leaves the table empty.
C15_BulkReplaceReplaces ==
  [][ \A t \in Threads :
        /\ ( pc[t] = "insert_many" /\ pc'[t] # "insert_many" /\ DistinctIds(call[t].tasks) )
           => pc'[t] = "commit"
        /\ ( pc[t] = "commit" /\ pc'[t] = "idle" )
           => /\ ret'[t].result = "ok"
              /\ Len(FetchRows(db'[Table(t)])) = Len(call[t].tasks)
              /\ Ascending(FetchRows(db'[Table(t)]))
              /\ \A k \in 1..Len(call[t].tasks) :
                   /\ call[t].tasks[k]["task_id"] \in DOMAIN db'[Table(t)]
                   /\ db'[Table(t)][call[t].tasks[k]["task_id"]] = PayloadRow(call[t].tasks[k])
              /\ OtherTablesSame(t) ]_vars

C15_Witness ==
  \E t \in Threads :
    /\ ret[t].op = "bulk_replace"
    /\ ret[t].result = "ok"
    /\ pc[t] = "idle"
    /\ DOMAIN db[_project_table_name(<<"c">>)] = {0}
    /\ db[_project_table_name(<<"c">>)][0] = PayloadRow(TaskFull(0))

\* C16: delete_task removes the row with the id when present and changes
\* nothing when absent, without error; other rows and tables are untouched.
C16_DeleteIdempotent ==
  [][ \A t \in Threads :
        Executes(t, "delete_task")
        => /\ ret'[t].result = "ok"
           /\ DOMAIN db'[Table(t)] = DOMAIN db[Table(t)] \ {call[t].task_id}
           /\ \A i \in DOMAIN db'[Table(t)] : db'[Table(t)][i] = db[Table(t)][i]
           /\ (call[t].task_id \notin DOMAIN db[Table(t)] => db' = db)
           /\ OtherTablesSame(t) ]_vars

C16_Witness ==
  \E t \in Threads :
    /\ ret[t].op = "delete_task"
    /\ ret[t].result = "ok"
    /\ pc[t] = "idle"
    /\ DOMAIN db[_project_table_name(<<"c">>)] = {1}

\* C17: fetch_all returns every row of the table, in strictly ascending id
\* order; a table that did not exist holds no rows, and exists once
\* fetch_all has returned.
C17_FetchAllOrdered ==
  /\ [](\A tb \in TableNames : tb \notin made => db[tb] = EmptyRows)
  /\ [][ \A t \in Threads :
           Executes(t, "fetch_all")
           => /\ ret'[t].result = "ok"
              /\ Ascending(ret'[t].rows)
              /\ {ret'[t].rows[k].task_id : k \in 1..Len(ret'[t].rows)} = DOMAIN db[Table(t)]
              /\ Len(ret'[t].rows) = Cardinality(DOMAIN db[Table(t)])
              /\ \A k \in 1..Len(ret'[t].rows) :
                   /\ ret'[t].rows[k].summary = db[Table(t)][ret'[t].rows[k].task_id].summary
                   /\ ret'[t].rows[k].highlight
                        = (db[Table(t)][ret'[t].rows[k].task_id].highlight = 1)
              /\ Table(t) \in made'
              /\ db' = db ]_vars

C17_Witness ==
  \E t \in Threads :
    /\ ret[t].op = "fetch_all"
    /\ ret[t].result = "ok"
    /\ Len(ret[t].rows) = 2

\* the calls a client can make on the engine
StoreCalls ==
  {[NoCall EXCEPT !.op = "_ensure_table", !.project = n] : n \in StoreNames}
    \cup {[NoCall EXCEPT !.op = "fetch_all", !.project = n] : n \in StoreNames}
    \cup {[NoCall EXCEPT !.op = "upsert_task", !.project = n, !.task = task] :
            n \in StoreNames, task \in TaskDicts}
    \cup {[NoCall EXCEPT !.op = "bulk_replace", !.project = n, !.tasks = tasks] :
            n \in StoreNames, tasks \in Batches}
    \cup {[NoCall EXCEPT !.op = "delete_task", !.project = n, !.task_id = i] :
            n \in StoreNames, i \in Ids}

\* C18: every operation called while the engine is not open fails with
\* RuntimeError (NotOpen), whatever its arguments, and creates no table and
\* changes no row.
C18_NotOpen ==
  [][ \A c \in StoreCalls :
        ( ~conn /\ Enter(1, c) )
        => /\ ret'[1] = [op |-> c.op, result |-> "RuntimeError", rows |-> <<>>]
           /\ pc'[1] = "idle"
           /\ db' = db
           /\ made' = made ]_vars

C18_Witness ==
  /\ ~conn
  /\ ret[1].op = "upsert_task"
  /\ ret[1].result = "RuntimeError"
  /\ made # {}

\* C19: upsert_task on an open engine fails with ValueError (ValidationError)
\* when task_id, summary, status or priority is missing, and then no row is
\* inserted or changed.
C19_UpsertValidation ==
  [][ \A c \in StoreCalls :
        ( /\ conn
          /\ c.op = "upsert_task"
          /\ \E k \in {"task_id", "summary", "status", "priority"} : k \notin DOMAIN c.task
          /\ Enter(1, c) )
        => /\ ret'[1] = [op |-> c.op, result |-> "ValueError", rows |-> <<>>]
           /\ pc'[1] = "idle"
           /\ db' = db
           /\ made' = made ]_vars

C19_Witness ==
  /\ conn
  /\ ret[1].op = "upsert_task"
  /\ ret[1].result = "ValueError"
  /\ \E tb \in TableNames : db[tb] # EmptyRows

\* C20: bulk_replace on an open engine fails with ValueError
\* (ValidationError) when a task of the batch, at any position, has no id;
\* it fails before its DELETE, so every row is as before.
C20_BulkReplaceValidation ==
  [][ \A t \in Threads :
        ( /\ call[t].op = "bulk_replace"
          /\ \E k \in 1..Len(call[t].tasks) : "task_id" \notin DOMAIN call[t].tasks[k]
          /\ pc[t] = "ensure_exec"
          /\ pc'[t] # pc[t] )
        => /\ ret'[t].result = "ValueError"
           /\ pc'[t] = "idle"
           /\ db' = db ]_vars

C20_Witness ==
  \E t \in Threads :
    /\ ret[t].op = "bulk_replace"
    /\ ret[t].result = "ValueError"
    /\ pc[t] = "idle"
    /\ conn
    /\ db[_project_table_name(<<"c">>)] # EmptyRows

\* ------------------------------------------------ claims on tables and updates
\* C21: _ensure_table is idempotent: whenever its statement runs on an open
\* engine, the project has exactly its one table afterwards, the call
\* returns without error, and every row stored in any table is unchanged.
C21_EnsureTableIdempotent ==
  [][ \A t \in Threads :
        ( pc[t] = "ensure_exec" /\ pc'[t] # "ensure_exec" )
        => /\ made' = made \cup {Table(t)}
           /\ db' = db
           /\ call[t].op = "_ensure_table"
                => ret'[t] = [op |-> "_ensure_table", result |-> "ok", rows |-> <<>>] ]_vars

\* C21 witness: _ensure_table returned without error for a project whose
\* table existed before and holds a row.
C21_Witness ==
  \E t \in Threads, n \in StoreNames :
    /\ ret[t].op = "_ensure_table"
    /\ ret[t].result = "ok"
    /\ pc[t] = "idle"
    /\ _project_table_name(n) \in made
    /\ db[_project_table_name(n)] # EmptyRows

\* the allowed field sets of update requests
PartialSets == {f \in FieldSets : f # EmptyBody /\ DOMAIN f \subseteq AllowedFields}

BadFields(fields) ==
  \/ DOMAIN fields = {}
  \/ \E k \in DOMAIN fields :
       k \notin {"summary", "assignee", "remarks", "status", "priority", "highlight"}
  \/ "status" \in DOMAIN fields /\ fields["status"] \notin ValidStatus
  \/ "priority" \in DOMAIN fields /\ fields["priority"] \notin ValidPriority

\* C23: an Update whose fields map is empty, has a key outside {summary,
\* assignee, remarks, status, priority, highlight} or an enum value outside
\* its enum is answered 400 and changes no stored task and no task of the
\* current project, also when it carries valid fields as well.
C23_UpdateRejected ==
  [][ ( /\ rq[1].phase = "routed"
        /\ rq[1].kind = "update"
        /\ rq'[1].phase # "routed"
        /\ BadFields(rq[1].body) )
      => /\ rq'[1].phase = "done"
         /\ resp'[1].status = 400
         /\ files' = files
         /\ current' = current ]_vars

\* C23 witness: an Update of an existing task of project "b" with a valid
\* summary and an invalid status was answered 400 and the file is as seeded.
C23_Witness ==
  /\ rq[1].kind = "update"
  /\ rq[1].phase = "done"
  /\ rq[1].name = <<"b">>
  /\ rq[1].index = 0
  /\ rq[1].body = [summary |-> "n", status |-> "Started"]
  /\ resp[1].status = 400
  /\ files[<<"b">>] = SeedTasks

\* a request of thread 1 of this kind leaves update_task_from_payload /
\* delete_task_from_payload / create_task_from_payload's checks in this step
Checked(kind) ==
  /\ rq[1].phase = "routed"
  /\ rq[1].kind = kind
  /\ rq'[1].phase # "routed"

\* the ids the listed tasks carry, the null id included
ListedIds(tasks) == {tasks[i].id : i \in 1..Len(tasks)}

\* C24: an Update or Delete addressed at an identifier no task of the
\* project has is answered 400 and changes no task; an answered Delete
\* returns the removed task, and the identifier it was addressed by (its
\* position, or else the id the removed task carried) addresses no task of
\* the project's listing afterwards.
C24_UnknownIdAndDelete ==
  [][ /\ ( /\ Checked("update") \/ Checked("delete")
           /\ rq[1].index < 0 \/ rq[1].index >= Len(Proj(1).tasks) )
         => /\ rq'[1].phase = "done"
            /\ resp'[1].status = 400
            /\ files' = files
            /\ current' = current
      /\ Answered(1, "delete")
         => /\ resp'[1].task = files[FileOf(1)][rq[1].index + 1]
            /\ \/ rq[1].index >= Len(files'[FileOf(1)])
               \/ resp'[1].task.id \notin ListedIds(files'[FileOf(1)]) ]_vars

\* C25: Create is never refused for its field values: it is answered 200,
\* the stored and returned task has every field the payload lacks at its
\* default (summary, assignee, remarks empty, status Not Started, priority
\* Medium, not highlighted) and an enum value outside its enum replaced by
\* the default; every stored task has status and priority inside their enums.
C25_CreateDefaults ==
  /\ [](\A k \in FileKeys : \A i \in 1..Len(files[k]) :
          /\ files[k][i].status \in ValidStatus
          /\ files[k][i].priority \in ValidPriority)
  /\ [][ /\ Checked("create") => rq'[1].phase = "mutated"
         /\ ( rq[1].phase = "mutated" /\ rq[1].kind = "create" /\ rq'[1].phase = "done" )
            => LET b == rq[1].body
                   task == resp'[1].task
               IN /\ resp'[1].status = 200
                  /\ \A k \in {"summary", "assignee", "remarks"} :
                       task[k] = IF k \in DOMAIN b THEN b[k] ELSE ""
                  /\ task.status = IF "status" \in DOMAIN b /\ b["status"] \in ValidStatus
                                     THEN b["status"] ELSE "Not Started"
                  /\ task.priority = IF "priority" \in DOMAIN b /\ b["priority"] \in ValidPriority
                                       THEN b["priority"] ELSE "Medium"
                  /\ HighlightOf(task) = FALSE
                  /\ files'[FileOf(1)] = Append(files[FileOf(1)], task) ]_vars

\* C25 witness: a Create with priority "Urgent" and no summary was answered
\* 200 and stored with priority Medium, status Not Started and an empty
\* summary.
C25_Witness ==
  /\ rq[1].kind = "create"
  /\ rq[1].phase = "done"
  /\ rq[1].body = [assignee |-> "u", priority |-> "Urgent"]
  /\ resp[1].status = 200
  /\ resp[1].task.priority = "Medium"
  /\ resp[1].task.status = "Not Started"
  /\ resp[1].task.summary = ""
  /\ resp[1].task.assignee = "u"
  /\ \E i \in 1..Len(files[rq[1].name]) : files[rq[1].name][i] = resp[1].task

\* C26: a highlight request for an existing task (one at that position, or
\* one carrying that id) is accepted: it is answered 200 with the task,
\* whose highlight is the requested value and whose other fields are as
\* before.
C26_HighlightAccepted ==
  [][ ( /\ Checked("highlight")
        /\ \/ rq[1].index >= 0 /\ rq[1].index < Len(Proj(1).tasks)
           \/ rq[1].index \in ListedIds(Proj(1).tasks) )
      => /\ rq'[1].phase = "mutated"
         /\ HighlightOf(rq'[1].out) = TRUE
         /\ \A k \in AllowedFields : rq'[1].out[k] = Proj(1).tasks[rq[1].index + 1][k] ]_vars

\* ------------------------------------------------------ claims on the routes
\* a name is invalid: empty, containing "..", starting with ".", or
\* containing a path separator
InvalidName(name) ==
  \/ Len(name) = 0
  \/ \E i \in 1..(Len(name) - 1) : name[i] = "." /\ name[i + 1] = "."
  \/ Len(name) > 0 /\ name[1] = "."
  \/ \E i \in 1..Len(name) : name[i] = "/"

TaskKinds == {"create", "update", "delete", "highlight", "list"}

\* thread 1 receives a request of one of these kinds in this step
Received(kinds) == nreq'[1] = nreq[1] + 1 /\ rq'[1].kind \in kinds

\* C27: a task route answers 400 "Invalid project name" exactly when the
\* name is empty, contains "..", starts with "." or contains a path
\* separator, and then nothing of the registry, the tags, the task files
\* or the database is touched.
C27_InvalidNames ==
  [][ Received(TaskKinds)
      => /\ InvalidName(rq'[1].name)
              <=> ( /\ rq'[1].phase = "done"
                    /\ resp'[1].status = 400
                    /\ resp'[1].error = "Invalid project name" )
         /\ InvalidName(rq'[1].name)
              => UNCHANGED <<projects, tags, exists, files, current, unreadable, storeVars>> ]_vars

\* C30: a request whose project cannot be loaded from storage is answered
\* with status 500 (the listing with some response): no request ends
\* without a response because an exception left the handler.
C30_NoEscape ==
  [][ ( /\ Received(TaskKinds \cup {"open"})
        /\ ~InvalidName(rq'[1].name)
        /\ rq'[1].name \in unreadable )
      => /\ rq'[1].phase = "done"
         /\ resp'[1] # Unhandled
         /\ rq'[1].kind # "list" => resp'[1].status = 500 ]_vars

\* ------------------------------------------- claims on table names and tags
\* the name without its leading and trailing blanks
Trimmed(s) ==
  IF \A i \in 1..Len(s) : s[i] = " " THEN <<>>
  ELSE LET lo == CHOOSE i \in 1..Len(s) : s[i] # " " /\ \A j \in 1..(i - 1) : s[j] = " "
           hi == CHOOSE i \in 1..Len(s) : s[i] # " " /\ \A j \in (i + 1)..Len(s) : s[j] = " "
       IN SubSeq(s, lo, hi)

\* the lowercase letter of an uppercase letter, any other character itself
Fold(c) == IF c = "A" THEN "a" ELSE IF c = "B" THEN "b" ELSE IF c = "C" THEN "c" ELSE c

FoldAll(s) == [i \in 1..Len(s) |-> Fold(s[i])]

\* the characters of [a-z0-9_] that names are built from here
IdChars == {"a", "b", "c", "0", "1", "_"}

\* C28: for a name that is not empty after trimming the table identifier is
\* "tasks_" followed by the trimmed, lowercased name with every character
\* outside [a-z0-9_] replaced by "_": it has only characters of [a-z0-9_],
\* and every name equal ignoring case gets the same identifier; a name that
\* is empty or all blanks is rejected with ValueError.
C28_TableName ==
  tableOut # NoOut
  => LET base == Trimmed(nameArg)
     IN IF base = <<>>
          THEN tableOut = [result |-> "ValueError", table |-> <<>>]
          ELSE /\ tableOut.result = "ok"
               /\ Len(tableOut.table) = Len(base) + 1
               /\ tableOut.table[1] = "tasks_"
               /\ \A i \in 1..Len(base) :
                    /\ tableOut.table[i + 1] =
                         IF Fold(base[i]) \in IdChars THEN Fold(base[i]) ELSE "_"
                    /\ tableOut.table[i + 1] \in IdChars
               /\ \A m \in Names :
                    FoldAll(m) = FoldAll(nameArg)
                      => ~NameRejected(m) /\ _project_table_name(m) = tableOut.table

\* C28 witness: the name " A-" got the identifier tasks_a_.
C28_Witness ==
  /\ nameArg = <<" ", "A", "-">>
  /\ tableOut = [result |-> "ok", table |-> <<"tasks_", "a", "_">>]

NoDup(seq) == \A i, j \in 1..Len(seq) : i # j => seq[i] # seq[j]

Elems(seq) == {seq[i] : i \in 1..Len(seq)}

\* where a value of a list without duplicates stands
Pos(seq, v) == CHOOSE i \in 1..Len(seq) : seq[i] = v

\* where a value occurs first among the trimmed values of a request
FirstPos(seq, v) ==
  CHOOSE i \in 1..Len(seq) :
    Trimmed(seq[i]) = v /\ \A j \in 1..(i - 1) : Trimmed(seq[j]) # v

\* C29: no project's tag list ever holds a value twice; add_tags_for_project
\* keeps the list and appends, in the order given, the values that are not
\* in it yet (compared exactly, so "X" is not "x"); remove_tag_for_project
\* removes the given value and keeps the order of the others; every call
\* works on the list of the lowercased project name, so the list is found
\* under any casing of the name; the lists of other projects are unchanged.
C29_TagLists ==
  /\ [](\A k \in TagKeys : NoDup(tags[k]))
  /\ [][ LET k == FoldAll(tagRet'.project)
             old == tags[k]
             new == tags'[k]
             given == tagRet'.tags
             fresh == {v \in {Trimmed(given[i]) : i \in 1..Len(given)} :
                         v # <<>> /\ v \notin Elems(old)}
         IN /\ tagRet'.op = "add"
                 => /\ Len(new) = Len(old) + Cardinality(fresh)
                    /\ SubSeq(new, 1, Len(old)) = old
                    /\ Elems(new) = Elems(old) \cup fresh
                    /\ \A i, j \in (Len(old) + 1)..Len(new) :
                         i < j => FirstPos(given, new[i]) < FirstPos(given, new[j])
            /\ tagRet'.op = "remove"
                 => /\ Elems(new) = Elems(old) \ {tagRet'.tag}
                    /\ Len(new) = Cardinality(Elems(new))
                    /\ \A a, b \in Elems(new) :
                         Pos(new, a) < Pos(new, b) <=> Pos(old, a) < Pos(old, b)
            /\ tagRet'.op = "get" => new = old
            /\ tagRet'.op \in {"add", "remove", "get"}
                 => /\ tagRet'.result = new
                    /\ \A other \in TagKeys \ {k} : tags'[other] = tags[other] ]_vars

\* C29 witness: project "b" held "x"; after "y", " x" and "X" were added
\* the list read under the name "B" is x, y, X.
C29_Witness ==
  /\ tagRet.op = "get"
  /\ tagRet.project = <<"B">>
  /\ tagRet.result = << <<"x">>, <<"y">>, <<"X">> >>
  /\ tags[<<"b">>] = tagRet.result

\* ------------------------------------------- claims on requests and responses
\* thread 1 receives a POST whose body _read_json could not read
ReceivedBad == nreq'[1] = nreq[1] + 1 /\ rq'[1].bad

C32_ErrorKey ==
  \A t \in Threads :
    ( rq[t].phase = "done" /\ resp[t].status \notin {0, 200} ) => resp[t].error # ""

\* C33: on POST /api/exit the 200 response is written and flushed before
\* shutdown() is invoked, shutdown() is invoked by a thread of its own and
\* never by a step of a request handler, and the serve loop that stops on
\* a shutdown request stops after the exchange that asked for it is complete.
C33_RespondThenShutdown ==
  /\ [][ (~srv.shutdown_request /\ srv'.shutdown_request)
           => \E t \in Threads :
                /\ srv.helper[t] = "sleeping"
                /\ srv'.helper[t] = "waiting"
                /\ t \in srv.sent
                /\ t \in srv.wrote
                /\ rq' = rq
                /\ srv'.pos = srv.pos ]_vars
  /\ [][ (srv.loop = "serving" /\ srv'.loop = "stopped" /\ ~srv'.interrupted)
           => \E t \in Threads : t \in srv.sent /\ srv.helper[t] = "waiting" ]_vars

C33_Witness ==
  /\ srv.loop = "stopped"
  /\ ~srv.interrupted
  /\ srv.helper[1] = "finished"
  /\ 1 \in srv.sent
  /\ rq[1].kind = "exit"
  /\ rq[1].phase = "done"
  /\ resp[1].status = 200
  /\ rq[2].phase = "routed"

TxnPcs == {"delete_all", "insert_many", "commit", "rollback"}

\* the rows a batch makes in an empty table
BatchRows(tasks) == InsertMany(EmptyRows, tasks).rows

\* C35: a fetch_all never reads a project in the middle of a bulk_replace:
\* when it runs its SELECT no transaction is open and no thread is between
\* BEGIN and COMMIT or ROLLBACK, it returns the rows then in the table, and
\* a transaction turns the rows S it found into exactly the batch T
\* (COMMIT) or back into S (ROLLBACK), so every fetch_all returns S or T.
C35_FetchSeesWholeReplace ==
  /\ [][ \A t \in Threads :
           Executes(t, "fetch_all")
             => /\ journal = <<>>
                /\ \A u \in Threads \ {t} : pc[u] \notin TxnPcs
                /\ ret'[t].rows = FetchRows(db[Table(t)]) ]_vars
  /\ [][ \A u \in Threads :
           /\ (pc[u] = "commit" /\ pc'[u] = "idle")
                => FetchRows(db'[Table(u)]) = FetchRows(BatchRows(call[u].tasks))
           /\ (pc[u] = "rollback" /\ pc'[u] = "idle")
                => FetchRows(db'[Table(u)]) = FetchRows(prior[u]) ]_vars

\* C35 witness: a fetch_all waits for the lock while a bulk_replace of the
\* same project has emptied a table that held rows and not yet inserted.
C35_Witness ==
  /\ pc[1] = "body_wait"
  /\ call[1].op = "fetch_all"
  /\ pc[2] = "insert_many"
  /\ call[2].project = call[1].project
  /\ prior[2] # EmptyRows
  /\ db[Table(2)] = EmptyRows
  /\ call[2].tasks # <<>>

\* no request is being handled
Quiet == \A t \in Threads : rq[t].phase \in {"idle", "done"}

\* C36: under every interleaving of concurrent open and rename requests the
\* current project, when there is one, names a project of the registry
\* (looked at when every request has been answered), and between a
\* rename's read of the current project and its update of it no other
\* request writes the current project.
C36_CurrentInRegistry ==
  /\ []((Quiet /\ current.some) => InSeq(projects, current.name))
  /\ [][ \A t \in Threads :
           (rq[t].phase = "edit-set" /\ rq'[t].phase = "edit-set")
             => current' = current ]_vars

\* C38: after concurrent open requests (one per client, nothing else), every
\* name opened is in the registry in some casing, and no two registry
\* entries differ only by case.
C38_OpensKept ==
  ( /\ \A t \in Threads : nreq[t] <= 1 /\ rq[t].kind \in {"none", "open"}
    /\ Quiet )
    => /\ \A t \in Threads :
            (rq[t].kind = "open" /\ resp[t].status = 200)
              => InSeq(ProjectsLower, Lower(Strip(rq[t].name)))
       /\ NoDup(ProjectsLower)

\* C37: a rename old -> new that ProjectManager.edit_project_name carried
\* out sets the current project to new exactly when the current project
\* equals old case-insensitively and otherwise leaves it as it was (none
\* stays none); a rename that was refused leaves the current project as it was.
C37_CurrentFollowsRename ==
  [][ (nreq'[1] = nreq[1] + 1 /\ rq'[1].kind = "edit-name")
        => LET old == Strip(rq'[1].name)
               new == Strip(rq'[1].new)
               renamed == old # <<>> /\ new # <<>> /\ EditAccepted(old, new)
           IN /\ (renamed /\ UsesCurrent(old))
                   => (current'.some /\ current'.name = new)
              /\ (renamed /\ ~UsesCurrent(old)) => current' = current
              /\ ~renamed => current' = current ]_vars

\* C39: GET /api/projects/<name>/tasks on a project whose task file cannot
\* be loaded answers 200 with an empty task list, and the read changes
\* neither the stored tasks nor the registry.
C39_ListSurvivesUnreadable ==
  [][ ( /\ nreq'[1] = nreq[1] + 1
        /\ rq'[1].kind = "list"
        /\ ~ListNameInvalid(rq'[1].name)
        /\ ~UsesCurrent(rq'[1].name)
        /\ LoadFails(rq'[1].name) )
        => /\ resp'[1].status = 200
           /\ resp'[1].tasks = <<>>
           /\ resp'[1].error = ""
           /\ rq'[1].phase = "done"
           /\ UNCHANGED <<files, unreadable, projects, tags, current, db>> ]_vars

\* C39 witness: the list of project "1", whose file cannot be loaded, was
\* answered with 200 and no tasks, and the file is as it was.
C39_Witness ==
  /\ rq[1].kind = "list"
  /\ rq[1].name = <<"1">>
  /\ rq[1].phase = "done"
  /\ resp[1].status = 200
  /\ resp[1].tasks = <<>>
  /\ <<"1">> \in unreadable
  /\ <<"1">> \in exists

\* C40: after a rename old -> new that was carried out and whose lowercase
\* keys differ, the tags of new are the tags old had before (none when old
\* had none, whatever was stored under new's key), and old's key holds no tags.
C40_TagsFollowRename ==
  [][ (nreq'[1] = nreq[1] + 1 /\ rq'[1].kind = "edit-name")
        => LET old == Strip(rq'[1].name)
               new == Strip(rq'[1].new)
           IN (old # <<>> /\ new # <<>> /\ EditAccepted(old, new) /\ Lower(old) # Lower(new))
                => /\ tags'[Lower(new)] = tags[Lower(old)]
                   /\ tags'[Lower(old)] = <<>>
                   /\ Lower(old) \notin tagged' ]_vars

====
